---------------------------- MODULE Spec2Model ----------------------------
(***************************************************************************)
(* The tensor-membrane store of src/tensor-membrane.c: the global registry *)
(* (membrane_registry, membrane_count, next_membrane_id), the membranes on *)
(* the heap (TensorMembraneImpl) and the operations on them.                *)
(*                                                                         *)
(* A membrane is identified by its address, as in the C code; its id is a  *)
(* field.  The heap is a finite set of addresses; malloc returns any free  *)
(* address (or NULL), so that a freed address may be handed out again.     *)
(* Every C function is a state transformer on a record S holding the       *)
(* globals and the heap; an action applies one API call to the variables.  *)
(***************************************************************************)
EXTENDS Integers, Sequences, FiniteSets, TLC

VARIABLES
    heap,               \* Addr -> TensorMembraneImpl (Blank when not allocated)
    live,               \* the allocated addresses
    membrane_registry,  \* static TensorMembraneImpl *membrane_registry[64]
    membrane_count,     \* static uint32_t membrane_count
    next_membrane_id,   \* static uint32_t next_membrane_id
    crashed,            \* the process died in undefined behaviour
    ret,                \* the last API call: its name, arguments and result
    trace,              \* the registry removals and frees of the last destroy
    issued,             \* the ids returned by successful creates so far
    threads             \* each thread's place in membrane_create and its locals

vars == <<heap, live, membrane_registry, membrane_count, next_membrane_id,
          crashed, ret, trace, issued, threads>>

----------------------------------------------------------------------------
(* Program constants *)

MAX_MEMBRANES == 64
MAX_FACTORS == 16
MAX_CHILDREN == 8
MAX_OBJECTS == 16
INITIAL_ENERGY == 100

(* Bounds of the model *)

MaxAddr == 4          \* heap addresses 1..MaxAddr
MaxIds == 4           \* creates are offered while next_membrane_id <= MaxIds

NumThreads == 2       \* the threads that may be inside membrane_create at once

NULL == 0
Addr == 1 .. MaxAddr
Thread == 1 .. NumThreads
RegIdx == 0 .. (MAX_MEMBRANES - 1)

----------------------------------------------------------------------------
(* Small sequence helpers *)

Range(s) == { s[i] : i \in DOMAIN s }

RepeatSeq(v, n) == [i \in 1 .. n |-> v]

\* the sequence s without its element at position i (the C shift loops)
RemoveAt(s, i) == [j \in 1 .. (Len(s) - 1) |-> IF j < i THEN s[j] ELSE s[j + 1]]

\* F(x) with x evaluated once: the model checker evaluates an operator's
\* argument again at each use, which a chain of calls cannot afford
Bind(x, F(_)) == CHOOSE r \in { F(v) : v \in {x} } : TRUE

\* position of the first occurrence of v in s, 0 when there is none
FirstIndex(s, v) ==
    IF \E i \in DOMAIN s : s[i] = v
    THEN CHOOSE i \in DOMAIN s : s[i] = v /\ \A j \in 1 .. (i - 1) : s[j] # v
    ELSE 0

----------------------------------------------------------------------------
(* Prime factorization utilities *)

\* bool is_prime(n): the loop over the odd i with i <= (uint32_t)sqrt(n)
IsPrimeLoop(n, i) ==
    LET Step[k \in Nat] ==
            IF k * k > n THEN TRUE
            ELSE IF n % k = 0 THEN FALSE
            ELSE Step[k + 2]
    IN Step[i]

is_prime(n) ==
    IF n < 2 THEN FALSE
    ELSE IF n = 2 THEN TRUE
    ELSE IF n % 2 = 0 THEN FALSE
    ELSE IsPrimeLoop(n, 3)

\* uint32_t *prime_factors(n, count), lines 28-57; P holds the factors found
\* and temp.  The while loops: divide by i as long as it divides and fewer than
\* 16 factors are stored.
RECURSIVE DivideOut(_, _)
DivideOut(P, i) ==
    IF P.temp % i = 0 /\ Len(P.factors) < MAX_FACTORS
    THEN Bind([factors |-> Append(P.factors, i), temp |-> P.temp \div i],
              LAMBDA P1 : DivideOut(P1, i))
    ELSE P

\* the for loop over the odd i with i <= sqrt(temp)
RECURSIVE OddFactors(_, _)
OddFactors(P, i) ==
    IF i * i <= P.temp /\ Len(P.factors) < MAX_FACTORS
    THEN Bind(DivideOut(P, i), LAMBDA P1 : OddFactors(P1, i + 2))
    ELSE P

\* a factorization that leaves out what remains after the divisions
FactorsWithoutRest(n, malloc_ok) ==
    IF ~malloc_ok THEN NULL
    ELSE Bind(DivideOut([factors |-> <<>>, temp |-> n], 2),
              LAMBDA P2 : OddFactors(P2, 3).factors)

\* the list returned (its length is *count), NULL when the malloc fails
prime_factors(n, malloc_ok) ==
    IF ~malloc_ok THEN NULL
    ELSE Bind(DivideOut([factors |-> <<>>, temp |-> n], 2),
              LAMBDA P2 : Bind(OddFactors(P2, 3),
              LAMBDA P3 : IF P3.temp > 2 /\ Len(P3.factors) < MAX_FACTORS
                          THEN Append(P3.factors, P3.temp)
                          ELSE P3.factors))

\* A uint32_t that may wrap is kept as <<high, low>>, its two 16-bit halves
\* (the model checker's integers are narrower than 2^32).
Half == 2 ^ 16
Byte == 2 ^ 8

\* n as a uint32_t, for 0 <= n < 2^31
ToU32(n) == <<n \div Half, n % Half>>

\* the 32-bit product <<high, low>> of two 16-bit numbers, by bytes
Mul16(a, b) ==
    LET a1 == a \div Byte
        a0 == a % Byte
        b1 == b \div Byte
        b0 == b % Byte
        mid == a1 * b0 + a0 * b1
        lowsum == a0 * b0 + (mid % Byte) * Byte
    IN <<a1 * b1 + (mid \div Byte) + (lowsum \div Half), lowsum % Half>>

\* x * y in uint32_t arithmetic: the product modulo 2^32
MulU32(x, y) ==
    LET ll == Mul16(x[2], y[2])
        hl == Mul16(x[1], y[2])
        lh == Mul16(x[2], y[1])
    IN <<(ll[1] + hl[2] + lh[2]) % Half, ll[2]>>

RECURSIVE ProductLoop(_, _, _)
ProductLoop(factors, i, product) ==
    IF i > Len(factors) THEN product
    ELSE Bind(MulU32(product, ToU32(factors[i])),
              LAMBDA p : ProductLoop(factors, i + 1, p))

\* uint32_t prime_product(factors, count): the product in 32-bit arithmetic
prime_product(factors) ==
    IF Len(factors) = 0 THEN ToU32(1) ELSE ProductLoop(factors, 1, ToU32(1))

factors_compatible(f1, f2) == prime_product(f1) = prime_product(f2)

\* The grouping loop of compute_tensor_dimensions and compute_tensor_size,
\* lines 83-94 and 107-124, from entry i on: a value found in unique_primes
\* has its power raised, a new one is appended with power 1; the loop stops at
\* the end of the list or at 16 distinct values.
RECURSIVE GroupLoop(_, _, _)
GroupLoop(factors, i, G) ==
    IF i > Len(factors) \/ Len(G.unique_primes) >= MAX_FACTORS THEN G
    ELSE Bind(LET j == FirstIndex(G.unique_primes, factors[i]) IN
              IF j # 0
              THEN [G EXCEPT !.prime_powers[j] = @ + 1]
              ELSE [unique_primes |-> Append(G.unique_primes, factors[i]),
                    prime_powers |-> Append(G.prime_powers, 1)],
              LAMBDA G1 : GroupLoop(factors, i + 1, G1))

UniquePrimes(factors) ==
    GroupLoop(factors, 1, [unique_primes |-> <<>>, prime_powers |-> <<>>]).unique_primes

PrimePowers(factors) ==
    GroupLoop(factors, 1, [unique_primes |-> <<>>, prime_powers |-> <<>>]).prime_powers

compute_tensor_dimensions(factors) ==
    IF Len(factors) = 0 THEN 0 ELSE Len(UniquePrimes(factors))

RECURSIVE SeqProduct(_, _)
SeqProduct(s, i) == IF i > Len(s) THEN 1 ELSE s[i] * SeqProduct(s, i + 1)

\* a size that adds the powers up instead of multiplying them
SizeAddsPowers(factors) == Len(factors)

\* the number of elements (the C function is multiplied by sizeof(float) by its
\* callers; data_size is kept here in elements)
compute_tensor_size(factors) ==
    IF Len(factors) = 0 THEN 0
    ELSE Bind(PrimePowers(factors), LAMBDA prime_powers : SeqProduct(prime_powers, 1))

\* a reshape test by element count instead of by prime product
SameElementCount(from_factors, to_factors) ==
    compute_tensor_size(from_factors) = compute_tensor_size(to_factors)

can_reshape(from_factors, to_factors) == factors_compatible(from_factors, to_factors)

----------------------------------------------------------------------------
(* The membrane structure and the state the C functions work on *)

\* the contents of an address that holds no membrane
Blank ==
    [id |-> 0, prime_factors |-> <<>>, data |-> <<>>, version |-> 0,
     parent |-> NULL, children |-> <<>>, children_alloc |-> FALSE,
     energy_level |-> 0, objects |-> <<>>,
     operation_count |-> 0, access_count |-> 0]

\* a new structure whose version and energy are left at zero
NewMembraneZeroed(id, factors, d) ==
    [id |-> id, prime_factors |-> factors, data |-> d, version |-> 0,
     parent |-> NULL, children |-> <<>>, children_alloc |-> FALSE,
     energy_level |-> 0, objects |-> <<>>,
     operation_count |-> 0, access_count |-> 0]

\* the structure membrane_create fills in, lines 184-230
NewMembrane(id, factors, d) ==
    [id |-> id, prime_factors |-> factors, data |-> d, version |-> 1,
     parent |-> NULL, children |-> <<>>, children_alloc |-> FALSE,
     energy_level |-> INITIAL_ENERGY, objects |-> <<>>,
     operation_count |-> 0, access_count |-> 0]

\* the program state as the C functions see it; rv is the return value of the
\* call, oom says that an allocation of the call failed, uaf that the call read
\* freed memory, log lists the registry removals and frees of the call
State ==
    [heap |-> heap, live |-> live, reg |-> membrane_registry,
     cnt |-> membrane_count, next |-> next_membrane_id,
     log |-> <<>>, uaf |-> FALSE, oom |-> FALSE, rv |-> 0]

\* TensorMembraneImpl *find_membrane_by_id(id) on a state S
FindById(S, id) ==
    IF \E i \in 0 .. (S.cnt - 1) : S.reg[i] # NULL /\ S.heap[S.reg[i]].id = id
    THEN S.reg[CHOOSE i \in 0 .. (S.cnt - 1) :
                  /\ S.reg[i] # NULL /\ S.heap[S.reg[i]].id = id
                  /\ \A j \in 0 .. (i - 1) :
                        ~(S.reg[j] # NULL /\ S.heap[S.reg[j]].id = id)]
    ELSE NULL

find_membrane_by_id(id) == FindById(State, id)

----------------------------------------------------------------------------
(* Membrane lifecycle management *)

\* an id derived from the fill level of the registry: a numbering that hands
\* an id out again after a destroy
IdFromCount(S) == S.cnt + 1

\* the id a new membrane gets, line 184: the value of next_membrane_id before
\* its increment (the counters of the model stay far below the width of their
\* C types, so the increments are written without the wrap)
FreshId(S) == S.next

\* a create whose capacity test lets a full registry take one more membrane
CreatePastCapacity(S, factors, a, alloc, d) ==
    IF Len(factors) = 0 \/ Len(factors) > MAX_FACTORS \/ S.cnt > MAX_MEMBRANES
    THEN [S EXCEPT !.rv = NULL]
    ELSE IF a = NULL
    THEN [S EXCEPT !.rv = NULL, !.oom = TRUE]
    ELSE LET S1 == [S EXCEPT !.next = S.next + 1] IN
         IF alloc # "ok"
         THEN [S1 EXCEPT !.rv = NULL, !.oom = TRUE]
         ELSE [S1 EXCEPT !.heap[a] = NewMembrane(FreshId(S), factors, d),
                         !.live = @ \cup {a},
                         !.reg = [j \in DOMAIN @ \cup {S.cnt} |->
                                     IF j = S.cnt THEN a ELSE @[j]],
                         !.cnt = @ + 1,
                         !.rv = a]

\* a create that takes the next id before it tests its arguments
CreateNumbersFirst(S, factors, a, alloc, d) ==
    LET S1 == [S EXCEPT !.next = S.next + 1] IN
    IF Len(factors) = 0 \/ Len(factors) > MAX_FACTORS \/ S.cnt >= MAX_MEMBRANES
    THEN [S1 EXCEPT !.rv = NULL]
    ELSE IF a = NULL
    THEN [S1 EXCEPT !.rv = NULL, !.oom = TRUE]
    ELSE IF alloc # "ok"
    THEN [S1 EXCEPT !.rv = NULL, !.oom = TRUE]
    ELSE [S1 EXCEPT !.heap[a] = NewMembrane(FreshId(S), factors, d),
                    !.live = @ \cup {a},
                    !.reg[S.cnt] = a,
                    !.cnt = @ + 1,
                    !.rv = a]

\* membrane_create(prime_factors, count).  a is the address malloc returns for
\* the structure (NULL: it failed), alloc says which of the two later mallocs
\* fails if any, d is what rand() puts in the buffer.
membrane_create(S, factors, a, alloc, d) ==
    IF Len(factors) = 0 \/ Len(factors) > MAX_FACTORS \/ S.cnt >= MAX_MEMBRANES
    THEN [S EXCEPT !.rv = NULL]
    ELSE IF a = NULL
    THEN [S EXCEPT !.rv = NULL, !.oom = TRUE]
    ELSE LET S1 == [S EXCEPT !.next = S.next + 1] IN
         IF alloc # "ok"
         THEN [S1 EXCEPT !.rv = NULL, !.oom = TRUE]
         ELSE [S1 EXCEPT !.heap[a] = NewMembrane(FreshId(S), factors, d),
                         !.live = @ \cup {a},
                         !.reg[S.cnt] = a,
                         !.cnt = @ + 1,
                         !.rv = a]

\* a removal that lowers the count but does not move the later entries down
RegistryRemoveNoShift(S, membrane) ==
    IF \E i \in 0 .. (S.cnt - 1) : S.reg[i] = membrane
    THEN [S EXCEPT !.cnt = @ - 1,
                   !.log = Append(@, <<"unregister", membrane>>)]
    ELSE S

\* lines 266-276: drop membrane from the registry, shifting the later entries
RegistryRemove(S, membrane) ==
    IF \E i \in 0 .. (S.cnt - 1) : S.reg[i] = membrane
    THEN LET i == CHOOSE k \in 0 .. (S.cnt - 1) :
                      S.reg[k] = membrane /\ \A j \in 0 .. (k - 1) : S.reg[j] # membrane
         IN [S EXCEPT !.reg = [j \in DOMAIN S.reg |->
                                  IF j >= i /\ j < S.cnt - 1 THEN S.reg[j + 1]
                                  ELSE S.reg[j]],
                      !.cnt = @ - 1,
                      !.log = Append(@, <<"unregister", membrane>>)]
    ELSE S

\* an unlink that shortens the parent's child list at its end, whichever
\* child is leaving
UnlinkLastChild(S, membrane) ==
    LET parent == S.heap[membrane].parent IN
    IF parent = NULL THEN S
    ELSE IF parent \notin S.live THEN [S EXCEPT !.uaf = TRUE]
    ELSE LET i == FirstIndex(S.heap[parent].children, membrane) IN
         IF i = 0 THEN S
         ELSE [S EXCEPT !.heap[parent].children = RemoveAt(@, Len(@))]

\* lines 288-300: take membrane out of its parent's child list.  A parent that
\* was freed is read after free: nothing live changes, the read is recorded.
ParentUnlink(S, membrane) ==
    LET parent == S.heap[membrane].parent IN
    IF parent = NULL THEN S
    ELSE IF parent \notin S.live THEN [S EXCEPT !.uaf = TRUE]
    ELSE LET i == FirstIndex(S.heap[parent].children, membrane) IN
         IF i = 0 THEN S
         ELSE [S EXCEPT !.heap[parent].children = RemoveAt(@, i)]

\* lines 302-311
FreeMembrane(S, membrane) ==
    [S EXCEPT !.heap[membrane] = Blank,
              !.live = @ \ {membrane},
              !.log = Append(@, <<"free", membrane>>)]

RECURSIVE membrane_destroy(_, _), DestroyChildren(_, _, _)

\* lines 278-286: for (i = 0; i < membrane->child_count; i++) destroy children[i];
\* child_count and children are read again at every turn of the loop
DestroyChildren(S, membrane, i) ==
    IF i < Len(S.heap[membrane].children)
    THEN Bind(membrane_destroy(S, S.heap[membrane].children[i + 1]),
              LAMBDA S1 : DestroyChildren(S1, membrane, i + 1))
    ELSE S

\* int membrane_destroy(membrane)
membrane_destroy(S, membrane) ==
    IF membrane = NULL THEN [S EXCEPT !.rv = -1]
    ELSE Bind(RegistryRemove(S, membrane), LAMBDA S1 :
         Bind(DestroyChildren(S1, membrane, 0), LAMBDA S2 :
         Bind(ParentUnlink(S2, membrane), LAMBDA S3 :
         [FreeMembrane(S3, membrane) EXCEPT !.rv = 0])))

\* a create_child that puts the new child at the head of the child list
CreateChildPrepends(S, parent, factors, a, alloc, d, arr_ok) ==
    IF parent = NULL \/ Len(S.heap[parent].children) >= MAX_CHILDREN
    THEN [S EXCEPT !.rv = NULL]
    ELSE Bind(membrane_create(S, factors, a, alloc, d), LAMBDA S1 :
         IF S1.rv = NULL THEN S1
         ELSE Bind([S1 EXCEPT !.heap[S1.rv].parent = parent], LAMBDA S2 :
              IF ~S2.heap[parent].children_alloc /\ ~arr_ok
              THEN [membrane_destroy(S2, S2.rv) EXCEPT !.rv = NULL, !.oom = TRUE]
              ELSE [S2 EXCEPT !.heap[parent].children = <<S2.rv>> \o @,
                              !.heap[parent].children_alloc = TRUE]))

\* a create_child whose capacity test lets a full child list take one more
CreateChildPastCapacity(S, parent, factors, a, alloc, d, arr_ok) ==
    IF parent = NULL \/ Len(S.heap[parent].children) > MAX_CHILDREN
    THEN [S EXCEPT !.rv = NULL]
    ELSE Bind(membrane_create(S, factors, a, alloc, d), LAMBDA S1 :
         IF S1.rv = NULL THEN S1
         ELSE Bind([S1 EXCEPT !.heap[S1.rv].parent = parent], LAMBDA S2 :
              IF ~S2.heap[parent].children_alloc /\ ~arr_ok
              THEN [membrane_destroy(S2, S2.rv) EXCEPT !.rv = NULL, !.oom = TRUE]
              ELSE [S2 EXCEPT !.heap[parent].children = Append(@, S2.rv),
                              !.heap[parent].children_alloc = TRUE]))

\* a create_child that gives up when the child array cannot be allocated and
\* leaves the child it has just created where it is
CreateChildLeavesChild(S, parent, factors, a, alloc, d, arr_ok) ==
    IF parent = NULL \/ Len(S.heap[parent].children) >= MAX_CHILDREN
    THEN [S EXCEPT !.rv = NULL]
    ELSE Bind(membrane_create(S, factors, a, alloc, d), LAMBDA S1 :
         IF S1.rv = NULL THEN S1
         ELSE Bind([S1 EXCEPT !.heap[S1.rv].parent = parent], LAMBDA S2 :
              IF ~S2.heap[parent].children_alloc /\ ~arr_ok
              THEN [S2 EXCEPT !.rv = NULL, !.oom = TRUE]
              ELSE [S2 EXCEPT !.heap[parent].children = Append(@, S2.rv),
                              !.heap[parent].children_alloc = TRUE]))

\* membrane_create_child(parent, factors, count); arr_ok: the malloc of the
\* parent's child array succeeds (it is called only while the array is NULL)
membrane_create_child(S, parent, factors, a, alloc, d, arr_ok) ==
    IF parent = NULL \/ Len(S.heap[parent].children) >= MAX_CHILDREN
    THEN [S EXCEPT !.rv = NULL]
    ELSE Bind(membrane_create(S, factors, a, alloc, d), LAMBDA S1 :
         IF S1.rv = NULL THEN S1
         ELSE Bind([S1 EXCEPT !.heap[S1.rv].parent = parent], LAMBDA S2 :
              IF ~S2.heap[parent].children_alloc /\ ~arr_ok
              THEN [membrane_destroy(S2, S2.rv) EXCEPT !.rv = NULL, !.oom = TRUE]
              ELSE [S2 EXCEPT !.heap[parent].children = Append(@, S2.rv),
                              !.heap[parent].children_alloc = TRUE]))

----------------------------------------------------------------------------
(* Reshape *)

\* realloc(data, new_size): the common prefix is kept, the elements beyond it
\* are uninitialised and read as junk
Realloc(data, new_size, junk) ==
    [i \in 1 .. new_size |-> IF i <= Len(data) THEN data[i] ELSE junk[i]]

\* a reshape that does not count as a new version
ResizeKeepsVersion(S, membrane, new_factors, realloc_ok, junk) ==
    IF membrane = NULL \/ Len(new_factors) = 0 \/ Len(new_factors) > MAX_FACTORS
    THEN [S EXCEPT !.rv = -1]
    ELSE IF ~can_reshape(S.heap[membrane].prime_factors, new_factors)
    THEN [S EXCEPT !.rv = -1]
    ELSE LET new_size == compute_tensor_size(new_factors)
             resized == new_size # Len(S.heap[membrane].data)
         IN IF resized /\ ~realloc_ok
            THEN [S EXCEPT !.rv = -1, !.oom = TRUE]
            ELSE [S EXCEPT !.heap[membrane].data =
                               IF resized THEN Realloc(@, new_size, junk) ELSE @,
                           !.heap[membrane].prime_factors = new_factors,
                           !.rv = 0]

\* a reshape that sorts the list it is given
ResizeSortsFactors(S, membrane, new_factors, realloc_ok, junk) ==
    IF membrane = NULL \/ Len(new_factors) = 0 \/ Len(new_factors) > MAX_FACTORS
    THEN [S EXCEPT !.rv = -1]
    ELSE IF ~can_reshape(S.heap[membrane].prime_factors, new_factors)
    THEN [S EXCEPT !.rv = -1]
    ELSE LET new_size == compute_tensor_size(new_factors)
             resized == new_size # Len(S.heap[membrane].data)
         IN IF resized /\ ~realloc_ok
            THEN [S EXCEPT !.rv = -1, !.oom = TRUE]
            ELSE [S EXCEPT !.heap[membrane].data =
                               IF resized THEN Realloc(@, new_size, junk) ELSE @,
                           !.heap[membrane].prime_factors =
                               IF Len(new_factors) = 2 /\ new_factors[1] > new_factors[2]
                               THEN <<new_factors[2], new_factors[1]>>
                               ELSE new_factors,
                           !.heap[membrane].version = @ + 1,
                           !.rv = 0]

\* a reshape that takes the new factor list but leaves the buffer as it is
ResizeKeepsBuffer(S, membrane, new_factors, realloc_ok, junk) ==
    IF membrane = NULL \/ Len(new_factors) = 0 \/ Len(new_factors) > MAX_FACTORS
    THEN [S EXCEPT !.rv = -1]
    ELSE IF ~can_reshape(S.heap[membrane].prime_factors, new_factors)
    THEN [S EXCEPT !.rv = -1]
    ELSE [S EXCEPT !.heap[membrane].prime_factors = new_factors,
                   !.heap[membrane].version = @ + 1,
                   !.rv = 0]

\* int membrane_resize(membrane, new_factors, count); realloc_ok: the realloc,
\* if it is called, succeeds
membrane_resize(S, membrane, new_factors, realloc_ok, junk) ==
    IF membrane = NULL \/ Len(new_factors) = 0 \/ Len(new_factors) > MAX_FACTORS
    THEN [S EXCEPT !.rv = -1]
    ELSE IF ~can_reshape(S.heap[membrane].prime_factors, new_factors)
    THEN [S EXCEPT !.rv = -1]
    ELSE LET new_size == compute_tensor_size(new_factors)
             resized == new_size # Len(S.heap[membrane].data)
         IN IF resized /\ ~realloc_ok
            THEN [S EXCEPT !.rv = -1, !.oom = TRUE]
            ELSE [S EXCEPT !.heap[membrane].data =
                               IF resized THEN Realloc(@, new_size, junk) ELSE @,
                           !.heap[membrane].prime_factors = new_factors,
                           !.heap[membrane].version = @ + 1,
                           !.rv = 0]

----------------------------------------------------------------------------
(* P-system operations *)

\* an add_object whose capacity test lets a full set take one more symbol
AddObjectPastCapacity(S, membrane, symbol, str_ok) ==
    IF membrane = NULL \/ Len(S.heap[membrane].objects) > MAX_OBJECTS
    THEN [S EXCEPT !.rv = -1]
    ELSE IF FirstIndex(S.heap[membrane].objects, symbol) # 0
    THEN [S EXCEPT !.rv = 0]
    ELSE IF ~str_ok
    THEN [S EXCEPT !.rv = -1, !.oom = TRUE]
    ELSE [S EXCEPT !.heap[membrane].objects = Append(@, symbol), !.rv = 0]

\* int membrane_add_object(membrane, symbol); str_ok: the malloc of the copy of
\* the symbol succeeds
membrane_add_object(S, membrane, symbol, str_ok) ==
    IF membrane = NULL \/ Len(S.heap[membrane].objects) >= MAX_OBJECTS
    THEN [S EXCEPT !.rv = -1]
    ELSE IF FirstIndex(S.heap[membrane].objects, symbol) # 0
    THEN [S EXCEPT !.rv = 0]
    ELSE IF ~str_ok
    THEN [S EXCEPT !.rv = -1, !.oom = TRUE]
    ELSE [S EXCEPT !.heap[membrane].objects = Append(@, symbol), !.rv = 0]

\* a remove_object that finds the symbol but drops the last slot of the array
\* without shifting the later entries down
RemoveLastSlot(S, membrane, symbol) ==
    IF membrane = NULL THEN [S EXCEPT !.rv = -1]
    ELSE LET i == FirstIndex(S.heap[membrane].objects, symbol) IN
         IF i = 0 THEN [S EXCEPT !.rv = -1]
         ELSE [S EXCEPT !.heap[membrane].objects = RemoveAt(@, Len(@)), !.rv = 0]

\* a remove_object that finds the symbol but takes the first entry out
RemoveFirstSlot(S, membrane, symbol) ==
    IF membrane = NULL THEN [S EXCEPT !.rv = -1]
    ELSE LET i == FirstIndex(S.heap[membrane].objects, symbol) IN
         IF i = 0 THEN [S EXCEPT !.rv = -1]
         ELSE [S EXCEPT !.heap[membrane].objects = RemoveAt(@, 1), !.rv = 0]

\* int membrane_remove_object(membrane, symbol)
membrane_remove_object(S, membrane, symbol) ==
    IF membrane = NULL THEN [S EXCEPT !.rv = -1]
    ELSE LET i == FirstIndex(S.heap[membrane].objects, symbol) IN
         IF i = 0 THEN [S EXCEPT !.rv = -1]
         ELSE [S EXCEPT !.heap[membrane].objects = RemoveAt(@, i), !.rv = 0]

\* membrane_find_object(membrane, symbol) # NULL
membrane_find_object(S, membrane, symbol) ==
    membrane # NULL /\ FirstIndex(S.heap[membrane].objects, symbol) # 0

\* a transfer that takes the symbol out of the source before it tries to put
\* it into the destination
TransferRemoveFirst(S, from, to, symbol, str_ok) ==
    IF from = NULL \/ to = NULL THEN [S EXCEPT !.rv = -1]
    ELSE IF ~membrane_find_object(S, from, symbol) THEN [S EXCEPT !.rv = -1]
    ELSE Bind(membrane_remove_object(S, from, symbol), LAMBDA S1 :
         IF S1.rv # 0 THEN [S1 EXCEPT !.rv = -1]
         ELSE Bind(membrane_add_object(S1, to, symbol, str_ok), LAMBDA S2 :
              IF S2.rv # 0 THEN [S2 EXCEPT !.rv = -1] ELSE S2))

\* int membrane_transfer_object(from, to, symbol)
membrane_transfer_object(S, from, to, symbol, str_ok) ==
    IF from = NULL \/ to = NULL THEN [S EXCEPT !.rv = -1]
    ELSE IF ~membrane_find_object(S, from, symbol) THEN [S EXCEPT !.rv = -1]
    ELSE Bind(membrane_add_object(S, to, symbol, str_ok), LAMBDA S1 :
         IF S1.rv # 0 THEN [S1 EXCEPT !.rv = -1]
         ELSE membrane_remove_object(S1, from, symbol))

----------------------------------------------------------------------------
(* Basic tensor operations *)

\* lines 424-432 and 445-452: the flat index of a multi-index (indices is
\* 0-based in C, indices[i] is indices[i + 1] here)
RECURSIVE IndexLoop(_, _, _, _, _)
IndexLoop(factors, indices, i, flat_index, stride) ==
    IF i < 0 THEN flat_index
    ELSE IndexLoop(factors, indices, i - 1,
                   flat_index + indices[i + 1] * stride,
                   stride * factors[i + 1])

\* a mapping that walks the axes from the first to the last
FlatIndexFirstToLast(factors, indices) ==
    LET dims == compute_tensor_dimensions(factors)
    IN IndexLoop([i \in 1 .. dims |-> factors[dims + 1 - i]],
                 [i \in 1 .. dims |-> indices[dims + 1 - i]], dims - 1, 0, 1)

FlatIndex(factors, indices) ==
    IndexLoop(factors, indices, compute_tensor_dimensions(factors) - 1, 0, 1)

\* a get_element that reads the first element whatever the index is
GetElementAtOrigin(S, membrane, indices) ==
    IF membrane = NULL THEN [S EXCEPT !.rv = 0]
    ELSE LET flat_index == FlatIndex(S.heap[membrane].prime_factors, indices) IN
         IF flat_index >= Len(S.heap[membrane].data) THEN [S EXCEPT !.rv = 0]
         ELSE [S EXCEPT !.heap[membrane].access_count = @ + 1,
                        !.rv = S.heap[membrane].data[1]]

\* a get_element that counts the access before it tests the offset
GetElementCountsFirst(S, membrane, indices) ==
    IF membrane = NULL THEN [S EXCEPT !.rv = 0]
    ELSE LET flat_index == FlatIndex(S.heap[membrane].prime_factors, indices)
             S1 == [S EXCEPT !.heap[membrane].access_count = @ + 1]
         IN IF flat_index >= Len(S.heap[membrane].data) THEN [S1 EXCEPT !.rv = 0]
            ELSE [S1 EXCEPT !.rv = S.heap[membrane].data[flat_index + 1]]

\* float membrane_get_element(membrane, indices)
membrane_get_element(S, membrane, indices) ==
    IF membrane = NULL THEN [S EXCEPT !.rv = 0]
    ELSE LET flat_index == FlatIndex(S.heap[membrane].prime_factors, indices) IN
         IF flat_index >= Len(S.heap[membrane].data) THEN [S EXCEPT !.rv = 0]
         ELSE [S EXCEPT !.heap[membrane].access_count = @ + 1,
                        !.rv = S.heap[membrane].data[flat_index + 1]]

\* a set_element that bumps the version before it tests the offset
SetElementBumpsFirst(S, membrane, indices, value) ==
    IF membrane = NULL THEN [S EXCEPT !.rv = -1]
    ELSE LET flat_index == FlatIndex(S.heap[membrane].prime_factors, indices)
             S1 == [S EXCEPT !.heap[membrane].version = @ + 1]
         IN IF flat_index >= Len(S.heap[membrane].data) THEN [S1 EXCEPT !.rv = -1]
            ELSE [S1 EXCEPT !.heap[membrane].data[flat_index + 1] = value,
                            !.heap[membrane].operation_count = @ + 1,
                            !.rv = 0]

\* a set_element without the test of the offset against the buffer length
SetElementUnchecked(S, membrane, indices, value) ==
    IF membrane = NULL THEN [S EXCEPT !.rv = -1]
    ELSE LET flat_index == FlatIndex(S.heap[membrane].prime_factors, indices) IN
         [S EXCEPT !.heap[membrane].data[flat_index + 1] = value,
                   !.heap[membrane].operation_count = @ + 1,
                   !.heap[membrane].version = @ + 1,
                   !.rv = 0]

\* int membrane_set_element(membrane, indices, value)
membrane_set_element(S, membrane, indices, value) ==
    IF membrane = NULL THEN [S EXCEPT !.rv = -1]
    ELSE LET flat_index == FlatIndex(S.heap[membrane].prime_factors, indices) IN
         IF flat_index >= Len(S.heap[membrane].data) THEN [S EXCEPT !.rv = -1]
         ELSE [S EXCEPT !.heap[membrane].data[flat_index + 1] = value,
                        !.heap[membrane].operation_count = @ + 1,
                        !.heap[membrane].version = @ + 1,
                        !.rv = 0]

\* a fill whose loop stops one element short of the end of the buffer
FillAllButLast(S, membrane, value) ==
    IF membrane = NULL THEN [S EXCEPT !.rv = -1]
    ELSE [S EXCEPT !.heap[membrane].data =
                       [i \in 1 .. Len(@) |-> IF i < Len(@) THEN value ELSE @[i]],
                   !.heap[membrane].operation_count = @ + 1,
                   !.heap[membrane].version = @ + 1,
                   !.rv = 0]

\* a fill that is paid for with one unit of energy
FillSpendsEnergy(S, membrane, value) ==
    IF membrane = NULL THEN [S EXCEPT !.rv = -1]
    ELSE [S EXCEPT !.heap[membrane].data = [i \in 1 .. Len(@) |-> value],
                   !.heap[membrane].operation_count = @ + 1,
                   !.heap[membrane].version = @ + 1,
                   !.heap[membrane].energy_level = @ - 1,
                   !.rv = 0]

\* int membrane_fill(membrane, value)
membrane_fill(S, membrane, value) ==
    IF membrane = NULL THEN [S EXCEPT !.rv = -1]
    ELSE [S EXCEPT !.heap[membrane].data = RepeatSeq(value, Len(@)),
                   !.heap[membrane].operation_count = @ + 1,
                   !.heap[membrane].version = @ + 1,
                   !.rv = 0]

----------------------------------------------------------------------------
(* Inputs of the model *)

MaxVersion == 2       \* reshape, set_element and fill are offered while version <= MaxVersion
MaxAccess == 1        \* get_element is offered while access_count < MaxAccess
MaxFactorLen == 2     \* the generated factor lists have 1 .. MaxFactorLen entries
MaxIndex == 2         \* the components of a multi-index are 0 .. MaxIndex
MaxFreeElems == 3     \* buffers up to this length get every initial filling

FactorVals == {2, 3, 4}
RandVals == {0, 1}    \* what rand() may put in an element; also uninitialised memory
InputVals == {5}      \* the values written by set_element and fill
LifecycleVals == {0}  \* the buffers are not looked at in the lifecycle runs

SeqsUpTo(S, n) == UNION { [1 .. k -> S] : k \in 1 .. n }

\* the lists at the limits of the length check: none, 16 and 17 entries
Sixteen == RepeatSeq(2, MAX_FACTORS)
Seventeen == RepeatSeq(2, MAX_FACTORS + 1)
EdgeFactors == { <<>>, Sixteen, Seventeen }

LifecycleFactors == { <<>>, <<2, 3>>, Seventeen }
ShapeFactors == SeqsUpTo(FactorVals, MaxFactorLen) \cup EdgeFactors

AllocOutcomes == {"ok", "no_data", "no_objects"}
IdArgs == 0 .. MaxIds
ObjectIds == {0, 1, 2}    \* the two membranes of the object runs and an unknown id
ShapeIds == {0, 1}        \* the membrane of the shape runs and an unknown id
CapacityIds == {0, 1, 2}  \* the parent and a root of the capacity runs, and an unknown id

\* the full object set of 16 symbols, and the symbols the calls pass
FullObjects ==
    <<"o01", "o02", "o03", "o04", "o05", "o06", "o07", "o08",
      "o09", "o10", "o11", "o12", "o13", "o14", "o15", "o16">>
ObjectPresets == { <<>>, SubSeq(FullObjects, 1, MAX_OBJECTS - 1), FullObjects }
SymbolArgs == {"o01", "x"}

\* What malloc may return for a new structure: NULL or a free address.  A free
\* address that a live membrane still points to (a dangling parent pointer) is
\* a choice of its own; the free addresses nothing points to are
\* interchangeable, and the lowest of them stands for all.
DanglingTargets == { heap[m].parent : m \in live } \ (live \cup {NULL})
Unreferenced == (DOMAIN heap) \ (live \cup DanglingTargets)
MallocChoices ==
    DanglingTargets \cup {NULL}
    \cup { a \in Unreferenced : \A b \in Unreferenced : a <= b }

\* what a buffer for factors may hold where the program did not write it
\* (rand() in membrane_create, uninitialised memory after realloc): every
\* filling over Vals for a buffer of up to MaxFreeElems elements, the same
\* value everywhere for a longer one; no buffer is allocated for a factor
\* list that the length check rejects
Fillings(factors, Vals) ==
    IF Len(factors) = 0 \/ Len(factors) > MAX_FACTORS THEN { <<>> }
    ELSE LET n == compute_tensor_size(factors) IN
         IF n <= MaxFreeElems THEN [1 .. n -> Vals]
         ELSE { RepeatSeq(v, n) : v \in Vals }

----------------------------------------------------------------------------
(* The API calls as actions *)

\* the factor list a membrane has when reshape is called on it
OldFactors(op, m) ==
    IF op = "resize" /\ m # NULL THEN heap[m].prime_factors ELSE <<>>

\* a call record: the function, its arguments, from the state S it ended in
\* its return value and whether an allocation failed in it, and for a reshape
\* the factor list before it
Call(op, m, m2, factors, sym, indices, value, S) ==
    [op |-> op, m |-> m, m2 |-> m2, factors |-> factors, sym |-> sym,
     indices |-> indices, value |-> value, rc |-> S.rv, oom |-> S.oom,
     old |-> OldFactors(op, m)]

NoCall ==
    [op |-> "none", m |-> NULL, m2 |-> NULL, factors |-> <<>>, sym |-> "",
     indices |-> <<>>, value |-> 0, rc |-> 0, oom |-> FALSE, old |-> <<>>]

\* a thread that is in no call: pc is its place in the code, op, parent and
\* factors the call it runs and its arguments, membrane, id and idx the locals
\* of membrane_create (the structure, the value read from next_membrane_id, the
\* value read from membrane_count), pending the stores of line 233 not yet
\* done, made the membranes its calls returned
IdleThread ==
    [pc |-> "idle", op |-> "none", parent |-> NULL, factors |-> <<>>,
     membrane |-> NULL, id |-> 0, idx |-> 0, pending |-> {}, made |-> {}]

Idle == [t \in Thread |-> IdleThread]

\* the state S a call ends in becomes the next state; crash: a read of freed
\* memory, if there was one, kills the process
Commit(S, call, crash) ==
    /\ heap' = S.heap
    /\ live' = S.live
    /\ membrane_registry' = S.reg
    /\ membrane_count' = S.cnt
    /\ next_membrane_id' = S.next
    /\ crashed' = (S.uaf /\ crash)
    /\ ret' = call
    /\ trace' = S.log
    /\ issued' = IF call.op \in {"create", "create_child"} /\ call.rc # NULL
                 THEN issued \cup {S.heap[call.rc].id}
                 ELSE issued
    /\ threads' = threads

CreateWith(Factors, Vals, LastId) ==
    \E factors \in Factors, a \in MallocChoices, alloc \in AllocOutcomes :
      \E d \in Fillings(factors, Vals) :
        /\ ~crashed
        /\ next_membrane_id <= LastId
        /\ \E S \in { membrane_create(State, factors, a, alloc, d) } :
             Commit(S, Call("create", NULL, NULL, factors, "", <<>>, 0, S), FALSE)

CreateChildWith(Ids, Factors, Vals, LastId) ==
    \E id \in Ids, factors \in Factors, a \in MallocChoices,
       alloc \in AllocOutcomes, arr_ok \in BOOLEAN :
      \E d \in Fillings(factors, Vals) :
        /\ ~crashed
        /\ next_membrane_id <= LastId
        /\ \E parent \in { find_membrane_by_id(id) } :
           \E S \in { membrane_create_child(State, parent, factors, a, alloc, d, arr_ok) } :
             Commit(S, Call("create_child", parent, NULL, factors, "", <<>>, 0, S),
                    FALSE)

Create == CreateWith(LifecycleFactors, LifecycleVals, MaxIds)
CreateChild == CreateChildWith(IdArgs, LifecycleFactors, LifecycleVals, MaxIds)

\* What a destroy that went through a dangling parent pointer (lines 289-297
\* on freed memory) may have done when it does not crash: nothing, or, where
\* the freed block has since been handed out again as the buffer of a live
\* membrane, a write (child_count--, the shift of children) into an element
\* of that buffer.
StaleVals == {9}
StaleWrites(S) ==
    IF ~S.uaf THEN {S}
    ELSE {S} \cup UNION { { [S EXCEPT !.heap[n].data[k] = v] :
                                k \in DOMAIN S.heap[n].data, v \in StaleVals } :
                            n \in S.live }

DestroyWith(Ids) ==
    \E id \in Ids, crash \in BOOLEAN :
        /\ ~crashed
        /\ \E m \in { find_membrane_by_id(id) } :
           \E S0 \in { membrane_destroy(State, m) } :
           \E S \in StaleWrites(S0) :
             Commit(S, Call("destroy", m, NULL, <<>>, "", <<>>, 0, S), crash)

Destroy == DestroyWith(IdArgs)

AddObjectWith(Ids, Symbols) ==
    \E id \in Ids, symbol \in Symbols, str_ok \in BOOLEAN :
        /\ ~crashed
        /\ \E m \in { find_membrane_by_id(id) } :
           \E S \in { membrane_add_object(State, m, symbol, str_ok) } :
             Commit(S, Call("add_object", m, NULL, <<>>, symbol, <<>>, 0, S), FALSE)

RemoveObjectWith(Ids, Symbols) ==
    \E id \in Ids, symbol \in Symbols :
        /\ ~crashed
        /\ \E m \in { find_membrane_by_id(id) } :
           \E S \in { membrane_remove_object(State, m, symbol) } :
             Commit(S, Call("remove_object", m, NULL, <<>>, symbol, <<>>, 0, S), FALSE)

TransferObjectWith(Ids, Symbols) ==
    \E from_id \in Ids, to_id \in Ids, symbol \in Symbols, str_ok \in BOOLEAN :
        /\ ~crashed
        /\ \E from \in { find_membrane_by_id(from_id) }, to \in { find_membrane_by_id(to_id) } :
           \E S \in { membrane_transfer_object(State, from, to, symbol, str_ok) } :
             Commit(S, Call("transfer_object", from, to, <<>>, symbol, <<>>, 0, S), FALSE)

AddObject == AddObjectWith(ObjectIds, SymbolArgs)
RemoveObject == RemoveObjectWith(ObjectIds, SymbolArgs)
TransferObject == TransferObjectWith(ObjectIds, SymbolArgs)

\* what the buffer reads as after a realloc to new_factors that grows it (the
\* elements beyond the old size are uninitialised); nothing where it cannot grow
JunkChoices(m, new_factors) ==
    IF \/ m = NULL
       \/ Len(new_factors) = 0
       \/ Len(new_factors) > MAX_FACTORS
    THEN { <<>> }
    ELSE IF compute_tensor_size(new_factors) <= Len(heap[m].data)
    THEN { <<>> }
    ELSE Fillings(new_factors, RandVals)

ResizeWith(Ids, Factors) ==
    \E id \in Ids, new_factors \in Factors, realloc_ok \in BOOLEAN :
        /\ ~crashed
        /\ \E m \in { find_membrane_by_id(id) } :
           /\ m # NULL => heap[m].version <= MaxVersion
           /\ \E junk \in JunkChoices(m, new_factors) :
              \E S \in { membrane_resize(State, m, new_factors, realloc_ok, junk) } :
                Commit(S, Call("resize", m, NULL, new_factors, "", <<>>, 0, S), FALSE)

Resize == ResizeWith(ShapeIds, ShapeFactors)

\* the multi-indices passed for a membrane: one component per dimension
IndexArgs(m) == [1 .. compute_tensor_dimensions(heap[m].prime_factors) -> 0 .. MaxIndex]

GetElementWith(Ids) ==
    \E id \in Ids :
        /\ ~crashed
        /\ \E m \in { find_membrane_by_id(id) } :
           /\ m # NULL
           /\ heap[m].access_count < MaxAccess
           /\ \E indices \in IndexArgs(m) :
              \E S \in { membrane_get_element(State, m, indices) } :
                Commit(S, Call("get_element", m, NULL, <<>>, "", indices, 0, S), FALSE)

SetElementWith(Ids) ==
    \E id \in Ids, value \in InputVals :
        /\ ~crashed
        /\ \E m \in { find_membrane_by_id(id) } :
           /\ m # NULL
           /\ heap[m].version <= MaxVersion
           /\ \E indices \in IndexArgs(m) :
              \E S \in { membrane_set_element(State, m, indices, value) } :
                Commit(S, Call("set_element", m, NULL, <<>>, "", indices, value, S),
                       FALSE)

FillWith(Ids) ==
    \E id \in Ids, value \in InputVals :
        /\ ~crashed
        /\ \E m \in { find_membrane_by_id(id) } :
           /\ m # NULL => heap[m].version <= MaxVersion
           /\ \E S \in { membrane_fill(State, m, value) } :
                Commit(S, Call("fill", m, NULL, <<>>, "", <<>>, value, S), FALSE)

GetElement == GetElementWith(ShapeIds)
SetElement == SetElementWith(ShapeIds)
Fill == FillWith(ShapeIds)

----------------------------------------------------------------------------
(* Specifications *)

\* the state after program start: lines 169-171
Empty ==
    [heap |-> [a \in Addr |-> Blank], live |-> {},
     reg |-> [i \in RegIdx |-> NULL], cnt |-> 0, next |-> 1,
     log |-> <<>>, uaf |-> FALSE, oom |-> FALSE, rv |-> 0]

\* S becomes the initial state, ids holding the ids issued on the way to it
StartIn(S, ids) ==
    /\ heap = S.heap
    /\ live = S.live
    /\ membrane_registry = S.reg
    /\ membrane_count = S.cnt
    /\ next_membrane_id = S.next
    /\ crashed = FALSE
    /\ ret = NoCall
    /\ trace = <<>>
    /\ issued = ids
    /\ threads = Idle

\* Lifecycle and hierarchy: create, create_child and destroy from program start.
Init == StartIn(Empty, {})

Next == Create \/ CreateChild \/ Destroy

Spec == Init /\ [][Next]_vars

\* Objects: two membranes, each already holding none, 15 or 16 objects (the
\* state after add_object of these symbols in order), under add, remove and
\* transfer.
TwoMembranes ==
    Bind(membrane_create(Empty, <<2, 3>>, 1, "ok", <<0>>),
         LAMBDA S1 : membrane_create(S1, <<2, 3>>, 2, "ok", <<0>>))

InitObjects ==
    \E p1 \in ObjectPresets, p2 \in ObjectPresets :
        StartIn([TwoMembranes EXCEPT !.heap[1].objects = p1, !.heap[2].objects = p2],
                {1, 2})

NextObjects == AddObject \/ RemoveObject \/ TransferObject

SpecObjects == InitObjects /\ [][NextObjects]_vars

\* Shape and elements: one membrane created with any generated factor list,
\* under reshape, get_element, set_element and fill.
InitShape ==
    \E factors \in SeqsUpTo(FactorVals, MaxFactorLen) \cup {Sixteen} :
      \E d \in Fillings(factors, RandVals) :
        StartIn(membrane_create(Empty, factors, 1, "ok", d), {1})

NextShape == Resize \/ GetElement \/ SetElement \/ Fill

SpecShape == InitShape /\ [][NextShape]_vars

\* Allocation: create, create_child and reshape from program start, with
\* factor lists of one product and different element counts, so that a
\* reshape reallocates.
AllocFactors == {<<>>, <<4>>, <<2, 2>>}

NextAlloc ==
    \/ CreateWith(AllocFactors, LifecycleVals, MaxIds)
    \/ CreateChildWith(IdArgs, AllocFactors, LifecycleVals, MaxIds)
    \/ ResizeWith(ShapeIds, AllocFactors)

SpecAlloc == Init /\ [][NextAlloc]_vars

\* Capacity: the state after 63 creates, one short of a full registry:
\* membrane 1 was given 7 children, one short of a full child list, the other
\* membranes are roots; then create, create_child and destroy, with two more
\* ids to hand out and the ids 1 and 2 and an unknown id as arguments.
Crowd == MAX_MEMBRANES - 1
Brood == [k \in 1 .. (MAX_CHILDREN - 1) |-> MaxIds + k]
CapacityAddr == 1 .. (MAX_MEMBRANES + 1)
CapacityLastId == MAX_MEMBRANES + 1

Crowded ==
    [heap |-> [a \in CapacityAddr |->
                 IF a > Crowd THEN Blank
                 ELSE [NewMembrane(a, <<2, 3>>, <<0>>) EXCEPT
                         !.parent = IF a \in Range(Brood) THEN 1 ELSE NULL,
                         !.children = IF a = 1 THEN Brood ELSE <<>>,
                         !.children_alloc = (a = 1)]],
     live |-> 1 .. Crowd,
     reg |-> [i \in RegIdx |-> IF i < Crowd THEN i + 1 ELSE NULL],
     cnt |-> Crowd, next |-> Crowd + 1,
     log |-> <<>>, uaf |-> FALSE, oom |-> FALSE, rv |-> 0]

InitCapacity == StartIn(Crowded, 1 .. Crowd)

NextCapacity ==
    \/ CreateWith(LifecycleFactors, LifecycleVals, CapacityLastId)
    \/ CreateChildWith(CapacityIds, LifecycleFactors, LifecycleVals, CapacityLastId)
    \/ DestroyWith(CapacityIds)

SpecCapacity == InitCapacity /\ [][NextCapacity]_vars

\* A full child list: the state after a create and 8 create_child calls on
\* the membrane it made (membrane 1 with the children 2 .. 9); then
\* create_child and destroy, with two more ids to hand out, and the parent,
\* its third and its last child, the next membrane made and an unknown id as
\* arguments.
FamilyAddr == 1 .. (MAX_CHILDREN + 3)
FamilyLastId == MAX_CHILDREN + 3
FamilyIds == {0, 1, 4, MAX_CHILDREN + 1, MAX_CHILDREN + 2}

Family ==
    [heap |-> [a \in FamilyAddr |->
                 IF a > MAX_CHILDREN + 1 THEN Blank
                 ELSE [NewMembrane(a, <<2, 3>>, <<0>>) EXCEPT
                         !.parent = IF a = 1 THEN NULL ELSE 1,
                         !.children = IF a = 1 THEN [k \in 1 .. MAX_CHILDREN |-> k + 1]
                                      ELSE <<>>,
                         !.children_alloc = (a = 1)]],
     live |-> 1 .. (MAX_CHILDREN + 1),
     reg |-> [i \in RegIdx |-> IF i < MAX_CHILDREN + 1 THEN i + 1 ELSE NULL],
     cnt |-> MAX_CHILDREN + 1, next |-> MAX_CHILDREN + 2,
     log |-> <<>>, uaf |-> FALSE, oom |-> FALSE, rv |-> 0]

InitFamily == StartIn(Family, 1 .. (MAX_CHILDREN + 1))

NextFamily ==
    \/ CreateChildWith(FamilyIds, LifecycleFactors, LifecycleVals, FamilyLastId)
    \/ DestroyWith(FamilyIds)

SpecFamily == InitFamily /\ [][NextFamily]_vars

----------------------------------------------------------------------------
(* Concurrent creation *)

\* The registry, membrane_count and next_membrane_id are plain statics (lines
\* 169-171) and membrane_create takes no lock, so two threads inside it
\* interleave at its reads and writes of them.  Each action below is one such
\* read or write of thread t, or a stretch of the function that touches only
\* what the thread owns.

\* one step of thread t: T is the thread afterwards, S the shared state, call
\* the call record if the step returned to the caller; crash: a store outside
\* the registry array, if there was one, kills the process
ThreadStep(t, T, S, call, crash) ==
    /\ threads' = [threads EXCEPT ![t] = T]
    /\ heap' = S.heap
    /\ live' = S.live
    /\ membrane_registry' = S.reg
    /\ membrane_count' = S.cnt
    /\ next_membrane_id' = S.next
    /\ crashed' = crash
    /\ ret' = call
    /\ trace' = S.log
    /\ issued' = IF T.pc = "idle" /\ call.rc # NULL
                 THEN issued \cup {S.heap[call.rc].id}
                 ELSE issued

\* thread t, running the call T, returns rv from it with the shared state S
ThreadReturn(t, T, S, rv, oom) ==
    ThreadStep(t,
               [IdleThread EXCEPT
                  !.made = T.made \cup (IF rv = NULL THEN {} ELSE {rv})],
               S,
               Call(T.op, T.parent, NULL, T.factors, "", <<>>, 0,
                    [S EXCEPT !.rv = rv, !.oom = oom]),
               FALSE)

\* thread t goes on to the place pc of its call
ThreadGoes(t, T, S) == ThreadStep(t, T, S, ret, FALSE)

\* a thread calls membrane_create(factors, count)
CallCreate(t, Factors, LastId) ==
    \E factors \in Factors :
        /\ ~crashed
        /\ threads[t].pc = "idle"
        /\ next_membrane_id <= LastId
        /\ ThreadGoes(t, [threads[t] EXCEPT !.pc = "check", !.op = "create",
                                            !.factors = factors], State)

\* a thread calls membrane_create_child(parent, factors, count) with a pointer
\* it holds: the test of line 240, then the call of membrane_create of line 244
CallCreateChild(t, Parents, Factors, LastId) ==
    \E parent \in Parents, factors \in Factors :
        /\ ~crashed
        /\ threads[t].pc = "idle"
        /\ next_membrane_id <= LastId
        /\ \E T \in { [threads[t] EXCEPT !.op = "create_child", !.parent = parent,
                                         !.factors = factors] } :
           IF parent = NULL \/ Len(heap[parent].children) >= MAX_CHILDREN
           THEN ThreadReturn(t, T, State, NULL, FALSE)
           ELSE ThreadGoes(t, [T EXCEPT !.pc = "check"], State)

\* line 176: the argument test, which reads membrane_count
CheckArguments(t) ==
    /\ ~crashed
    /\ threads[t].pc = "check"
    /\ IF \/ Len(threads[t].factors) = 0
          \/ Len(threads[t].factors) > MAX_FACTORS
          \/ membrane_count >= MAX_MEMBRANES
       THEN ThreadReturn(t, threads[t], State, NULL, FALSE)
       ELSE ThreadGoes(t, [threads[t] EXCEPT !.pc = "malloc"], State)

\* lines 180-181: malloc of the structure, whose fields are not yet written
MallocStructure(t) ==
    \E a \in MallocChoices :
        /\ ~crashed
        /\ threads[t].pc = "malloc"
        /\ IF a = NULL
           THEN ThreadReturn(t, threads[t], State, NULL, TRUE)
           ELSE ThreadGoes(t, [threads[t] EXCEPT !.pc = "load_id", !.membrane = a],
                           [State EXCEPT !.live = @ \cup {a}])

\* line 184, the read of next_membrane_id++
LoadNextId(t) ==
    /\ ~crashed
    /\ threads[t].pc = "load_id"
    /\ ThreadGoes(t, [threads[t] EXCEPT !.pc = "store_id", !.id = next_membrane_id],
                  State)

\* line 184, the write of next_membrane_id++ (the counter stays far below the
\* width of its type)
StoreNextId(t) ==
    /\ ~crashed
    /\ threads[t].pc = "store_id"
    /\ ThreadGoes(t, [threads[t] EXCEPT !.pc = "init"],
                  [State EXCEPT !.next = threads[t].id + 1])

\* lines 184-230: the fields, the buffer and the object array of the thread's
\* own structure; a failed malloc frees what the call allocated
InitStructure(t, Vals) ==
    \E alloc \in AllocOutcomes :
    \E d \in Fillings(threads[t].factors, Vals) :
        /\ ~crashed
        /\ threads[t].pc = "init"
        /\ IF alloc # "ok"
           THEN ThreadReturn(t, threads[t],
                             [State EXCEPT !.live = @ \ {threads[t].membrane}],
                             NULL, TRUE)
           ELSE ThreadGoes(t, [threads[t] EXCEPT !.pc = "load_count"],
                           [State EXCEPT !.heap[threads[t].membrane] =
                               NewMembrane(threads[t].id, threads[t].factors, d)])

\* line 233, the read of membrane_count++; the increment and the store into
\* the array that follow are unsequenced
LoadCount(t) ==
    /\ ~crashed
    /\ threads[t].pc = "load_count"
    /\ ThreadGoes(t, [threads[t] EXCEPT !.pc = "register", !.idx = membrane_count,
                                        !.pending = {"slot", "count"}],
                  State)

\* thread t did the store w of line 233; after the second of the two stores
\* membrane_create returns, to the caller or into membrane_create_child
StoreDone(t, w, S, crash) ==
    LET T == [threads[t] EXCEPT !.pending = @ \ {w}] IN
    IF T.pending # {} \/ crash
    THEN ThreadStep(t, T, S, ret, crash)
    ELSE IF T.op = "create"
    THEN ThreadReturn(t, T, S, T.membrane, FALSE)
    ELSE ThreadGoes(t, [T EXCEPT !.pc = "link"], S)

\* line 233, the store into membrane_registry[]: an index of 64 or more is
\* outside the array, and the store lands in the memory behind it
StoreSlot(t) ==
    \E crash \in BOOLEAN :
        /\ ~crashed
        /\ threads[t].pc = "register"
        /\ "slot" \in threads[t].pending
        /\ crash => threads[t].idx >= MAX_MEMBRANES
        /\ StoreDone(t, "slot",
                      [State EXCEPT !.reg = [j \in DOMAIN @ \cup {threads[t].idx} |->
                                               IF j = threads[t].idx
                                               THEN threads[t].membrane ELSE @[j]]],
                      crash)

\* line 233, the write of membrane_count++
StoreCount(t) ==
    /\ ~crashed
    /\ threads[t].pc = "register"
    /\ "count" \in threads[t].pending
    /\ StoreDone(t, "count", [State EXCEPT !.cnt = threads[t].idx + 1], FALSE)

\* lines 247-261 of membrane_create_child: the child is tied to its parent, or
\* destroyed when the parent's child array cannot be allocated
LinkChild(t) ==
    \E arr_ok \in BOOLEAN :
        /\ ~crashed
        /\ threads[t].pc = "link"
        /\ \E child \in { threads[t].membrane }, parent \in { threads[t].parent } :
           \E S \in { [State EXCEPT !.heap[child].parent = parent] } :
             IF ~S.heap[parent].children_alloc /\ ~arr_ok
             THEN ThreadReturn(t, threads[t], membrane_destroy(S, child), NULL, TRUE)
             ELSE ThreadReturn(t, threads[t],
                               [S EXCEPT !.heap[parent].children = Append(@, child),
                                         !.heap[parent].children_alloc = TRUE],
                               child, FALSE)

\* Two threads calling create and create_child from the state of the capacity
\* runs: 63 membranes registered, membrane 1 with 7 children.  The threads hold
\* pointers to membrane 1 and to the root 2.  The registry is followed by the
\* words of memory behind the array, which hold no membrane pointer.
ThreadAddr == 1 .. (MAX_MEMBRANES + NumThreads)
ThreadLastId == MAX_MEMBRANES
ThreadFactors == { <<>>, <<2, 3>> }
ThreadParents == {NULL, 1, 2}
BehindRegistry == MAX_MEMBRANES .. (MAX_MEMBRANES + NumThreads)

InitThreads ==
    StartIn([Crowded EXCEPT !.heap = [a \in ThreadAddr |->
                                         IF a \in DOMAIN @ THEN @[a] ELSE Blank],
                            !.reg = [i \in RegIdx \cup BehindRegistry |->
                                        IF i \in DOMAIN @ THEN @[i] ELSE NULL]],
            1 .. Crowd)

NextThreads ==
    \E t \in Thread :
        \/ CallCreate(t, ThreadFactors, ThreadLastId)
        \/ CallCreateChild(t, ThreadParents, ThreadFactors, ThreadLastId)
        \/ CheckArguments(t)
        \/ MallocStructure(t)
        \/ LoadNextId(t)
        \/ StoreNextId(t)
        \/ InitStructure(t, LifecycleVals)
        \/ LoadCount(t)
        \/ StoreSlot(t)
        \/ StoreCount(t)
        \/ LinkChild(t)

SpecThreads == InitThreads /\ [][NextThreads]_vars

\* The shell builtins of cognitive.c on the membrane store.  A builtin gets
\* its arguments as words: atoi of av[1] is the id, the comma-separated words
\* of a list argument are taken as the numbers atoi makes of them (0 for a
\* word that is no number).  rv is what the command reports: "done" for its
\* message on standard output, "error" for rc_error.

\* the first 16 positive numbers among the words, lines 1455-1461
ParsePrimes(words) ==
    LET primes == SelectSeq(words, LAMBDA prime : prime > 0)
    IN SubSeq(primes, 1, IF Len(primes) < MAX_FACTORS THEN Len(primes) ELSE MAX_FACTORS)

\* void b_membrane_set(av), lines 1275-1310
b_membrane_set(S, id, indices, value) ==
    IF FindById(S, id) = NULL THEN [S EXCEPT !.rv = "error"]
    ELSE [S EXCEPT !.rv = "done"]

\* void b_membrane_fill(av), lines 1347-1363
b_membrane_fill(S, id, value) ==
    IF FindById(S, id) = NULL THEN [S EXCEPT !.rv = "error"]
    ELSE [S EXCEPT !.rv = "done"]

\* void b_membrane_add_object(av), lines 1365-1387
b_membrane_add_object(S, id, symbol, str_ok) ==
    IF FindById(S, id) = NULL THEN [S EXCEPT !.rv = "error"]
    ELSE Bind(membrane_add_object(S, FindById(S, id), symbol, str_ok),
              LAMBDA S1 : [S1 EXCEPT !.rv = IF S1.rv = 0 THEN "done" ELSE "error"])

\* void b_membrane_remove_object(av), lines 1389-1405
b_membrane_remove_object(S, id, symbol) ==
    IF FindById(S, id) = NULL THEN [S EXCEPT !.rv = "error"]
    ELSE [S EXCEPT !.rv = "done"]

\* a membrane-transfer that calls the transfer of the store
TransferBuiltinMoves(S, from_id, to_id, symbol) ==
    IF FindById(S, from_id) = NULL \/ FindById(S, to_id) = NULL
    THEN [S EXCEPT !.rv = "error"]
    ELSE Bind(membrane_transfer_object(S, FindById(S, from_id), FindById(S, to_id),
                                       symbol, TRUE),
              LAMBDA S1 : [S1 EXCEPT !.rv = IF S1.rv = 0 THEN "done" ELSE "error"])

\* void b_membrane_transfer(av), lines 1407-1432
b_membrane_transfer(S, from_id, to_id, symbol) ==
    IF FindById(S, from_id) = NULL THEN [S EXCEPT !.rv = "error"]
    ELSE IF FindById(S, to_id) = NULL THEN [S EXCEPT !.rv = "error"]
    ELSE [S EXCEPT !.rv = "done"]

\* void b_membrane_reshape(av), lines 1434-1481
b_membrane_reshape(S, id, words) ==
    IF FindById(S, id) = NULL THEN [S EXCEPT !.rv = "error"]
    ELSE IF Len(ParsePrimes(words)) = 0 THEN [S EXCEPT !.rv = "error"]
    ELSE [S EXCEPT !.rv = "done"]

WordLists == { <<>>, <<0>>, <<6>>, <<2, 3>>, <<0, 4>>, Seventeen }

BuiltinSet ==
    \E id \in ObjectIds, indices \in {<<0, 0>>, <<1>>}, value \in InputVals :
      \E S \in { b_membrane_set(State, id, indices, value) } :
        Commit(S, Call("membrane-set", find_membrane_by_id(id), NULL, <<>>, "",
                       indices, value, S), FALSE)

BuiltinFill ==
    \E id \in ObjectIds, value \in InputVals :
      \E S \in { b_membrane_fill(State, id, value) } :
        Commit(S, Call("membrane-fill", find_membrane_by_id(id), NULL, <<>>, "",
                       <<>>, value, S), FALSE)

BuiltinAddObject ==
    \E id \in ObjectIds, symbol \in SymbolArgs, str_ok \in BOOLEAN :
      \E S \in { b_membrane_add_object(State, id, symbol, str_ok) } :
        Commit(S, Call("membrane-add-object", find_membrane_by_id(id), NULL, <<>>,
                       symbol, <<>>, 0, S), FALSE)

BuiltinRemoveObject ==
    \E id \in ObjectIds, symbol \in SymbolArgs :
      \E S \in { b_membrane_remove_object(State, id, symbol) } :
        Commit(S, Call("membrane-remove-object", find_membrane_by_id(id), NULL, <<>>,
                       symbol, <<>>, 0, S), FALSE)

BuiltinTransfer ==
    \E from_id \in ObjectIds, to_id \in ObjectIds, symbol \in SymbolArgs :
      \E S \in { b_membrane_transfer(State, from_id, to_id, symbol) } :
        Commit(S, Call("membrane-transfer", find_membrane_by_id(from_id),
                       find_membrane_by_id(to_id), <<>>, symbol, <<>>, 0, S), FALSE)

BuiltinReshape ==
    \E id \in ObjectIds, words \in WordLists :
      \E S \in { b_membrane_reshape(State, id, words) } :
        Commit(S, Call("membrane-reshape", find_membrane_by_id(id), NULL, words, "",
                       <<>>, 0, S), FALSE)

NextShell ==
    \/ BuiltinSet
    \/ BuiltinFill
    \/ BuiltinAddObject
    \/ BuiltinRemoveObject
    \/ BuiltinTransfer
    \/ BuiltinReshape

SpecShell == InitObjects /\ [][NextShell]_vars

\* All operations together: two root membranes (the state after two creates),
\* then child creation and destroy, the object calls with one symbol, and
\* reshape, get_element, set_element and fill on membrane 1.
MixedFactors == { <<2, 3>>, <<6>> }
MixedIds == {1, 2}
MixedSymbols == {"x"}

InitMixed == StartIn(TwoMembranes, {1, 2})

NextMixed ==
    \/ CreateChildWith(MixedIds, {<<2, 3>>}, LifecycleVals, MaxIds)
    \/ DestroyWith(MixedIds)
    \/ AddObjectWith(MixedIds, MixedSymbols)
    \/ RemoveObjectWith(MixedIds, MixedSymbols)
    \/ TransferObjectWith(MixedIds, MixedSymbols)
    \/ ResizeWith(ShapeIds, MixedFactors)
    \/ GetElementWith(ShapeIds)
    \/ SetElementWith(ShapeIds)
    \/ FillWith(ShapeIds)

SpecMixed == InitMixed /\ [][NextMixed]_vars

\* Index mapping: one membrane of two or three dimensions whose buffer holds a
\* different value in each element (the values rand() gave them), under
\* get_element and set_element.
IndexFactors ==
    { <<2, 3>>, <<2, 2, 3, 3>>, <<3, 3, 2, 2>>, <<2, 3, 2, 3>>, <<2, 2, 3, 3, 5, 5>> }

Drawn(factors) == [i \in 1 .. compute_tensor_size(factors) |-> 10 + i]

InitIndex ==
    \E factors \in IndexFactors :
        StartIn(membrane_create(Empty, factors, 1, "ok", Drawn(factors)), {1})

NextIndex == GetElementWith(ShapeIds) \/ SetElementWith(ShapeIds)

SpecIndex == InitIndex /\ [][NextIndex]_vars

\* The prime factorization utilities on their own: an argument is chosen, no
\* membrane exists, and each call applies one function to it.  Numbers: the
\* small ones, a larger prime, and numbers with 16 and with 17 prime factors
\* (2^16, 2^15 * 3, 2^17, 2^16 * 3).  Lists for the grouping: all of 2s and 3s up to
\* five entries, 16 equal entries, 16 and 17 different entries.  Lists for the
\* product: small ones and ones whose product passes 2^32.
MaxNumber == 100
MaxGroupLen == 5
LargeNumbers == {10007, 65536, 98304, 131072, 196608}
NumberArgs == (0 .. MaxNumber) \cup LargeNumbers
GroupFactors ==
    SeqsUpTo({2, 3}, MaxGroupLen)
      \cup {Sixteen, [i \in 1 .. MAX_FACTORS |-> i + 1], [i \in 1 .. (MAX_FACTORS + 1) |-> i + 1]}
ProductFactors ==
    { <<>>, <<2, 3>>, <<3, 2>>, <<6>>, <<2, 2, 3>>, <<65536, 65536>>, <<65537, 65537>>,
      <<3, 43691>>, <<65521, 65537>>, Sixteen, RepeatSeq(4, MAX_FACTORS) }

PureCall(op, n, f1, f2, rc, oom) ==
    [op |-> op, n |-> n, f1 |-> f1, f2 |-> f2, rc |-> rc, oom |-> oom]

PureArgs ==
    { PureCall("none", n, <<>>, <<>>, 0, FALSE) : n \in NumberArgs }
      \cup { PureCall("none", 0, f1, <<>>, 0, FALSE) : f1 \in GroupFactors }
      \cup { PureCall("none", 0, f1, f2, 0, FALSE) : f1 \in ProductFactors, f2 \in ProductFactors }

InitPure ==
    /\ heap = Empty.heap
    /\ live = Empty.live
    /\ membrane_registry = Empty.reg
    /\ membrane_count = Empty.cnt
    /\ next_membrane_id = Empty.next
    /\ crashed = FALSE
    /\ ret \in PureArgs
    /\ trace = <<>>
    /\ issued = {}
    /\ threads = Idle

\* a call of a function without side effects: only the call record changes
Returns(op, rc, oom) ==
    /\ ret.op = "none"
    /\ ret' = [ret EXCEPT !.op = op, !.rc = rc, !.oom = oom]
    /\ UNCHANGED <<heap, live, membrane_registry, membrane_count, next_membrane_id,
                   crashed, trace, issued, threads>>

IsPrime == Returns("is_prime", is_prime(ret.n), FALSE)

PrimeFactors ==
    \E malloc_ok \in BOOLEAN :
        Returns("prime_factors", prime_factors(ret.n, malloc_ok), ~malloc_ok)

PrimeProduct == Returns("prime_product", prime_product(ret.f1), FALSE)

FactorsCompatible ==
    Returns("factors_compatible", factors_compatible(ret.f1, ret.f2), FALSE)

TensorDimensions ==
    Returns("compute_tensor_dimensions", compute_tensor_dimensions(ret.f1), FALSE)

TensorSize == Returns("compute_tensor_size", compute_tensor_size(ret.f1), FALSE)

NextPure ==
    \/ IsPrime
    \/ PrimeFactors
    \/ PrimeProduct
    \/ FactorsCompatible
    \/ TensorDimensions
    \/ TensorSize

SpecPure == InitPure /\ [][NextPure]_vars

----------------------------------------------------------------------------
(* Properties: identity, registry and hierarchy *)

\* the membranes in the registry
Registered == { membrane_registry[k] : k \in 0 .. (membrane_count - 1) }

\* how often v occurs in the sequence s
Occurrences(s, v) == Cardinality({ i \in DOMAIN s : s[i] = v })

\* a membrane and everything below it by the child lists of the heap h
RECURSIVE SubtreeOf(_, _)
SubtreeOf(h, m) ==
    {m} \cup UNION { SubtreeOf(h, h[m].children[i]) : i \in DOMAIN h[m].children }

\* the membranes reached from m in 1 to n steps along the parent pointers
RECURSIVE AncestorsOf(_, _)
AncestorsOf(m, n) ==
    IF n = 0 \/ heap[m].parent = NULL THEN {}
    ELSE {heap[m].parent} \cup AncestorsOf(heap[m].parent, n - 1)

LastCreated == ret.op \in {"create", "create_child"} /\ ret.rc # NULL

\* C1: every successful create or create_child returns a membrane whose id is
\* greater than every id issued before it, whatever was destroyed in between;
\* so ids strictly increase and none is issued twice.
C1_IdsStrictlyIncrease ==
    [][ LastCreated' => \A i \in issued : heap'[ret'.rc].id > i ]_vars

\* a membrane was created after the membrane with the highest id so far had
\* been destroyed: the new id is above an id that is no longer registered and
\* that is above every other registered id
C1_CreatedAfterDestroyOfHighest ==
    /\ LastCreated
    /\ \E i \in issued :
          /\ i < heap[ret.rc].id
          /\ \A m \in Registered \ {ret.rc} : heap[m].id < i

\* C2: a destroy that succeeds lowers the count of registered membranes by
\* exactly the number of membranes in the subtree of the destroyed membrane.
C2_DestroyRemovesSubtree ==
    [][ (ret'.op = "destroy" /\ ret'.rc = 0 /\ ~crashed')
        => membrane_count' = membrane_count - Cardinality(SubtreeOf(heap, ret'.m)) ]_vars

\* C3: registry and hierarchy agree between operations. Every registered
\* membrane with a parent has a registered parent that lists it exactly once;
\* every entry of a registered membrane's child list is registered and has
\* that membrane as its parent; no membrane is its own ancestor.
C3_HierarchyConsistent ==
    /\ \A m \in Registered :
          heap[m].parent # NULL =>
            /\ heap[m].parent \in Registered
            /\ Occurrences(heap[heap[m].parent].children, m) = 1
    /\ \A m \in Registered : \A i \in DOMAIN heap[m].children :
          /\ heap[m].children[i] \in Registered
          /\ heap[heap[m].children[i]].parent = m
    /\ \A m \in Registered : m \notin AncestorsOf(m, MaxAddr)

\* C4: destroy works bottom-up. When a destroy takes a membrane out of the
\* registry, every membrane below it has been taken out and freed before.
C4_DestroyBottomUp ==
    [][ ret'.op = "destroy" =>
          \A k \in DOMAIN trace' :
            trace'[k][1] = "unregister" =>
              \A d \in SubtreeOf(heap, trace'[k][2]) \ {trace'[k][2]} :
                /\ \E j \in 1 .. (k - 1) : trace'[j] = <<"unregister", d>>
                /\ \E j \in 1 .. (k - 1) : trace'[j] = <<"free", d>> ]_vars

----------------------------------------------------------------------------
(* Properties: objects *)

\* the last call was transfer_object between two membranes
TransferCall == ret.op = "transfer_object" /\ ret.m # NULL /\ ret.m2 # NULL

\* the last call was add_object on a membrane
AddCall == ret.op = "add_object" /\ ret.m # NULL

\* C5: a symbol is not lost by a transfer. Whatever from and to are, a symbol
\* that from holds before transfer_object is in from or in to after it.
C5_SymbolNeverLost ==
    [][ (TransferCall' /\ ret'.sym \in Range(heap[ret'.m].objects))
        => ret'.sym \in Range(heap'[ret'.m].objects)
                        \cup Range(heap'[ret'.m2].objects) ]_vars

\* C6: a transfer that fails changes nothing. If from does not hold the symbol,
\* or to holds 16 objects and not the symbol, transfer_object fails; and after
\* any failed transfer_object every object set is as it was.
C6_FailedTransferChangesNothing ==
    [][ TransferCall' =>
          /\ ( \/ ret'.sym \notin Range(heap[ret'.m].objects)
               \/ /\ Len(heap[ret'.m2].objects) = MAX_OBJECTS
                  /\ ret'.sym \notin Range(heap[ret'.m2].objects) )
             => ret'.rc = -1
          /\ ret'.rc = -1 => heap' = heap ]_vars

\* a transfer of a symbol that from holds failed because to was full
C6_TransferIntoFullSetFailed ==
    /\ TransferCall
    /\ ret.rc = -1
    /\ ret.sym \in Range(heap[ret.m].objects)
    /\ Len(heap[ret.m2].objects) = MAX_OBJECTS
    /\ ret.sym \notin Range(heap[ret.m2].objects)

\* C7: after a successful transfer_object between two different membranes the
\* symbol is in to exactly once and not in from, and every other symbol occurs
\* in from and in to as often as before.
C7_TransferMovesOneSymbol ==
    [][ (TransferCall' /\ ret'.rc = 0 /\ ret'.m # ret'.m2) =>
          /\ Occurrences(heap'[ret'.m2].objects, ret'.sym) = 1
          /\ Occurrences(heap'[ret'.m].objects, ret'.sym) = 0
          /\ \A a \in {ret'.m, ret'.m2} :
               \A t \in (Range(heap[a].objects) \cup Range(heap'[a].objects))
                        \ {ret'.sym} :
                 Occurrences(heap'[a].objects, t) = Occurrences(heap[a].objects, t)
        ]_vars

\* a transfer between two different membranes succeeded and the source still
\* holds other objects
C7_TransferSucceeded ==
    /\ TransferCall
    /\ ret.rc = 0
    /\ ret.m # ret.m2
    /\ heap[ret.m].objects # <<>>
    /\ ret.sym \in Range(heap[ret.m2].objects)

\* C8: add_object is idempotent. Adding a symbol the membrane already holds
\* succeeds and leaves the object set as it was, also when it holds 16 objects.
C8_AddPresentSucceeds ==
    [][ (AddCall' /\ ret'.sym \in Range(heap[ret'.m].objects))
        => /\ ret'.rc = 0
           /\ heap'[ret'.m].objects = heap[ret'.m].objects ]_vars

\* every object set holds at most 16 symbols and none of them twice
ObjectSetsBounded ==
    \A m \in Registered :
      /\ Len(heap[m].objects) <= MAX_OBJECTS
      /\ \A i \in DOMAIN heap[m].objects :
           Occurrences(heap[m].objects, heap[m].objects[i]) = 1

\* add_object of a symbol the membrane does not hold: on a full set it fails
\* and changes nothing; on a smaller set it succeeds and the count rises by
\* one, or, when oom_fails, it fails and changes nothing if the copy of the
\* symbol could not be allocated
AddAbsent(oom_fails) ==
    (AddCall' /\ ret'.sym \notin Range(heap[ret'.m].objects)) =>
      IF \/ Len(heap[ret'.m].objects) = MAX_OBJECTS
         \/ oom_fails /\ ret'.oom
      THEN /\ ret'.rc = -1
           /\ heap'[ret'.m].objects = heap[ret'.m].objects
      ELSE /\ ret'.rc = 0
           /\ Len(heap'[ret'.m].objects) = Len(heap[ret'.m].objects) + 1

\* C9: every object set holds at most 16 symbols without duplicates; adding an
\* absent symbol to a set of 16 fails and changes nothing; adding an absent
\* symbol to a smaller set succeeds and raises the count by one, unless the
\* copy of the symbol cannot be allocated, and then it fails and changes
\* nothing.
C9_CapacityUnlessOutOfMemory ==
    []ObjectSetsBounded /\ [][AddAbsent(TRUE)]_vars

\* C9 as stated: the same, with the add to a smaller set always succeeding.
C9_CapacityAsStated ==
    []ObjectSetsBounded /\ [][AddAbsent(FALSE)]_vars

\* an add_object of a new symbol filled the set to its capacity
C9_SetFilledToCapacity ==
    /\ AddCall
    /\ ret.rc = 0
    /\ Len(heap[ret.m].objects) = MAX_OBJECTS
    /\ heap[ret.m].objects[MAX_OBJECTS] = ret.sym

----------------------------------------------------------------------------
(* Properties: reshape *)

\* the last call was a reshape of a membrane with a list of 1 to 16 factors
ReshapeCall ==
    /\ ret.op = "resize"
    /\ ret.m # NULL
    /\ Len(ret.factors) \in 1 .. MAX_FACTORS

\* C10: a reshape with a list of 1 to 16 factors succeeds, unless the
\* reallocation fails, exactly when the prime product of the new list equals
\* that of the current list; a reshape rejected for unequal products leaves
\* the factor list, the buffer and the version as they were.
C10_ReshapeIffSameProduct ==
    [][ ReshapeCall' =>
          LET same == prime_product(heap[ret'.m].prime_factors)
                        = prime_product(ret'.factors)
          IN /\ ret'.rc = 0 => same
             /\ (same /\ ~ret'.oom) => ret'.rc = 0
             /\ ~same => /\ ret'.rc = -1
                         /\ heap'[ret'.m].prime_factors = heap[ret'.m].prime_factors
                         /\ heap'[ret'.m].data = heap[ret'.m].data
                         /\ heap'[ret'.m].version = heap[ret'.m].version ]_vars

\* a reshape to a list of the same product succeeded and changed the number of
\* elements of the buffer
C10_ReshapedToOtherSize ==
    /\ ReshapeCall
    /\ ret.rc = 0
    /\ Len(heap[ret.m].data) = 2
    /\ heap[ret.m].prime_factors = <<2, 2>>
    /\ heap[ret.m].version = 2

----------------------------------------------------------------------------
(* Properties: buffers and allocation *)

\* the buffer of every registered membrane has size(prime_factors) elements
BufferMatchesShape ==
    \A m \in Registered :
      Len(heap[m].data) = compute_tensor_size(heap[m].prime_factors)

\* C11: in every reachable state the buffer of each membrane has exactly
\* size(prime_factors) elements for its current factor list, and a successful
\* reshape makes the new list, in its order, the factor list of the membrane.
C11_BufferLengthIsSize ==
    /\ []BufferMatchesShape
    /\ [][ (ret'.op = "resize" /\ ret'.rc = 0)
            => heap'[ret'.m].prime_factors = ret'.factors ]_vars

\* a second successful reshape brought a membrane to the one-element shape
\* <<4>> (from <<2, 2>>, the only other list of that product, or from itself)
C11_ReshapedTwice ==
    /\ ret.op = "resize"
    /\ ret.rc = 0
    /\ ret.factors = <<4>>
    /\ heap[ret.m].version = 3
    /\ heap[ret.m].operation_count = 0
    /\ Len(heap[ret.m].data) = 1


\* the registry as the sequence of its entries
RegistrySeq == [k \in 1 .. membrane_count |-> membrane_registry[k - 1]]

\* C12: a failed allocation changes nothing. When the reallocation of a
\* reshape fails, the membrane keeps its factor list, its buffer and its
\* version; when an allocation of create or create_child fails, the registry
\* holds the same membranes as before, count() is unchanged and so is the
\* child list of the parent.
C12_AllocationFailureIsAtomic ==
    [][ ret'.oom =>
          /\ ret'.op = "resize" =>
                /\ heap'[ret'.m].prime_factors = heap[ret'.m].prime_factors
                /\ heap'[ret'.m].data = heap[ret'.m].data
                /\ heap'[ret'.m].version = heap[ret'.m].version
          /\ ret'.op \in {"create", "create_child"} =>
                /\ ret'.rc = NULL
                /\ RegistrySeq' = RegistrySeq
                /\ membrane_count' = membrane_count
          /\ ret'.op = "create_child" =>
                heap'[ret'.m].children = heap[ret'.m].children ]_vars

\* a create_child created its child, could not allocate the child array of
\* the parent and destroyed the child again
C12_ChildArrayAllocationFailed ==
    /\ ret.op = "create_child"
    /\ ret.oom
    /\ ret.rc = NULL
    /\ Len(trace) = 2
    /\ heap[ret.m].children = <<>>

----------------------------------------------------------------------------
(* Properties: capacities *)

\* the last call failed and left the count and the entries of the registry
RegistryUntouched ==
    /\ ret'.rc = NULL
    /\ membrane_count' = membrane_count
    /\ RegistrySeq' = RegistrySeq

\* C13: at most 64 membranes are registered in every reachable state; create
\* and create_child fail when 64 are registered, create fails for an empty
\* factor list and for one longer than 16, and each of these failures leaves
\* count() and the entries of the registry as they were.
C13_RegistryCapacity ==
    /\ [](membrane_count <= MAX_MEMBRANES /\ Cardinality(Registered) <= MAX_MEMBRANES)
    /\ [][ ( \/ /\ ret'.op \in {"create", "create_child"}
                 /\ membrane_count = MAX_MEMBRANES
              \/ /\ ret'.op = "create"
                 /\ Len(ret'.factors) \notin 1 .. MAX_FACTORS )
            => RegistryUntouched ]_vars

\* a create with a valid factor list was refused, with no allocation tried,
\* because 64 membranes were registered
C13_CreateRefusedWhenFull ==
    /\ ret.op = "create"
    /\ ret.rc = NULL
    /\ ~ret.oom
    /\ Len(ret.factors) \in 1 .. MAX_FACTORS
    /\ membrane_count = MAX_MEMBRANES

\* C16: no membrane has more than 8 children; create_child fails when the
\* parent is unknown, when the parent has 8 children and when the registry is
\* full, and each of these failures leaves the child list of the parent,
\* count() and the registry as they were.
C16_ChildCapacity ==
    /\ [](\A m \in Registered : Len(heap[m].children) <= MAX_CHILDREN)
    /\ [][ ( /\ ret'.op = "create_child"
              /\ \/ ret'.m = NULL
                 \/ Len(heap[ret'.m].children) = MAX_CHILDREN
                 \/ membrane_count = MAX_MEMBRANES )
            => /\ RegistryUntouched
               /\ ret'.m # NULL => heap'[ret'.m].children = heap[ret'.m].children
          ]_vars

\* a create_child was refused for a parent with 8 children while the registry
\* had room
C16_NinthChildRefused ==
    /\ ret.op = "create_child"
    /\ ret.rc = NULL
    /\ ret.m # NULL
    /\ Len(heap[ret.m].children) = MAX_CHILDREN
    /\ membrane_count < MAX_MEMBRANES

----------------------------------------------------------------------------
(* Properties: the registry as an index *)

\* no membrane and no id occurs in two entries of the registry, and
\* membrane_count is the number of registered membranes
RegistryIsIndex ==
    /\ \A i, j \in 0 .. (membrane_count - 1) :
          i # j => /\ membrane_registry[i] # membrane_registry[j]
                   /\ heap[membrane_registry[i]].id # heap[membrane_registry[j]].id
    /\ membrane_count = Cardinality(Registered)
    /\ \A m \in Registered : m # NULL /\ m \in live

\* lookup returns nothing for an id never issued and, for an issued id,
\* nothing or the membrane that carries it
LookupIsById ==
    /\ \A id \in IdArgs \ issued : find_membrane_by_id(id) = NULL
    /\ \A id \in issued :
          find_membrane_by_id(id) # NULL => heap[find_membrane_by_id(id)].id = id

\* how lookup changes in a step: a created membrane is found under its id; a
\* membrane that was found stays found, at the same place, unless
\* membrane_destroy ran on it in the step; after a successful destroy the id
\* of its argument is not found; an id that is not found stays so
LookupStep ==
    /\ LastCreated' => FindById(State', heap'[ret'.rc].id) = ret'.rc
    /\ \A id \in issued :
          LET m == find_membrane_by_id(id) IN
          /\ (m # NULL /\ FindById(State', id) # m)
               => \E k \in DOMAIN trace' : trace'[k] = <<"unregister", m>>
          /\ (m # NULL /\ ret'.op = "destroy" /\ ret'.m = m /\ ret'.rc = 0)
               => FindById(State', id) = NULL
          /\ m = NULL => FindById(State', id) = NULL

\* C14: in every reachable state no two registry entries are the same
\* membrane or carry the same id, and count() is the number of entries;
\* lookup(id) returns the membrane with that id from its creation until
\* membrane_destroy succeeds on it, and nothing for that id ever after.
C14_RegistryIndexesLiveMembranes ==
    [](RegistryIsIndex /\ LookupIsById) /\ [][LookupStep]_vars

\* a membrane was created after another had been destroyed, whose id is no
\* longer found, while a third is still registered
C14_CreatedAfterDestroy ==
    /\ LastCreated
    /\ membrane_count >= 2
    /\ \E id \in issued : find_membrane_by_id(id) = NULL

----------------------------------------------------------------------------
(* Properties: what create and create_child build *)

\* C15: a successful create registers a membrane with no parent, no children,
\* no objects, energy_level 100, version 1, the given factor list in its order
\* and a buffer of size(factors) elements; count() rises by exactly 1 and
\* every other membrane stays as it was.
C15_CreateBuildsRoot ==
    [][ (ret'.op = "create" /\ ret'.rc # NULL) =>
          /\ heap'[ret'.rc].parent = NULL
          /\ heap'[ret'.rc].children = <<>>
          /\ heap'[ret'.rc].objects = <<>>
          /\ heap'[ret'.rc].energy_level = INITIAL_ENERGY
          /\ heap'[ret'.rc].version = 1
          /\ heap'[ret'.rc].prime_factors = ret'.factors
          /\ Len(heap'[ret'.rc].data) = compute_tensor_size(ret'.factors)
          /\ ret'.rc \notin Registered
          /\ Registered' = Registered \cup {ret'.rc}
          /\ membrane_count' = membrane_count + 1
          /\ \A m \in Registered : heap'[m] = heap[m] ]_vars

\* a create built a membrane with a buffer of two elements next to an older
\* membrane that has been reshaped
C15_CreatedBesideOthers ==
    /\ ret.op = "create"
    /\ ret.rc # NULL
    /\ Len(heap[ret.rc].data) = 2
    /\ \E m \in Registered \ {ret.rc} : heap[m].version > 1

\* C17: a successful create_child makes parent the parent of the new
\* membrane, appends the new membrane at the end of the child list of parent,
\* whose other entries keep their order, registers it, and raises the child
\* count of parent and count() by exactly 1 each.
C17_CreateChildAppends ==
    [][ (ret'.op = "create_child" /\ ret'.rc # NULL) =>
          /\ heap'[ret'.rc].parent = ret'.m
          /\ heap'[ret'.m].children = Append(heap[ret'.m].children, ret'.rc)
          /\ Len(heap'[ret'.m].children) = Len(heap[ret'.m].children) + 1
          /\ ret'.rc \notin Registered
          /\ Registered' = Registered \cup {ret'.rc}
          /\ membrane_count' = membrane_count + 1 ]_vars

\* a create_child gave a third child to a parent
C17_ThirdChildAppended ==
    /\ ret.op = "create_child"
    /\ ret.rc # NULL
    /\ Len(heap[ret.m].children) = 3
    /\ heap[ret.m].children[3] = ret.rc

----------------------------------------------------------------------------
(* Properties: element access *)

\* the flat offset the last call computed from its multi-index, by the shape
\* the membrane has in the heap h
OffsetIn(h, call) == FlatIndex(h[call.m].prime_factors, call.indices)

\* C18: round trip. A get_element that follows a successful set_element on
\* the same membrane at the same multi-index, with no reshape, fill or other
\* set_element in between, returns the value that was set.
C18_SetThenGet ==
    [][ ( /\ ret.op = "set_element"
          /\ ret.rc = 0
          /\ ret'.op = "get_element"
          /\ ret'.m = ret.m
          /\ ret'.indices = ret.indices )
        => ret'.rc = ret.value ]_vars

\* a get_element returned a value that set_element had put at an offset other
\* than the first: the only operation so far on a buffer that holds the value
\* once
C18_ReadBackWrittenValue ==
    /\ ret.op = "get_element"
    /\ ret.rc \in InputVals
    /\ OffsetIn(heap, ret) >= 1
    /\ heap[ret.m].operation_count = 1
    /\ Occurrences(heap[ret.m].data, ret.rc) = 1

\* C19: a get_element whose flat offset is at or beyond the buffer length
\* returns 0.0 and changes nothing, access_count included; one whose offset is
\* inside returns the element stored there, raises access_count by exactly 1
\* and changes neither the data nor version nor operation_count.
C19_GetElement ==
    [][ (ret'.op = "get_element" /\ ret'.m # NULL) =>
          IF OffsetIn(heap, ret') >= Len(heap[ret'.m].data)
          THEN /\ ret'.rc = 0
               /\ heap' = heap
          ELSE /\ ret'.rc = heap[ret'.m].data[OffsetIn(heap, ret') + 1]
               /\ heap'[ret'.m].access_count = heap[ret'.m].access_count + 1
               /\ heap'[ret'.m].data = heap[ret'.m].data
               /\ heap'[ret'.m].version = heap[ret'.m].version
               /\ heap'[ret'.m].operation_count = heap[ret'.m].operation_count
        ]_vars

\* a get_element beyond the end of a buffer of nonzero elements returned 0.0
\* and was not counted
C19_ReadBeyondEnd ==
    /\ ret.op = "get_element"
    /\ ret.m # NULL
    /\ OffsetIn(heap, ret) >= Len(heap[ret.m].data)
    /\ ret.rc = 0
    /\ heap[ret.m].access_count = 0
    /\ \A i \in DOMAIN heap[ret.m].data : heap[ret.m].data[i] # 0

\* C20: a set_element whose flat offset is at or beyond the buffer length
\* fails and leaves data, operation_count and version as they were; one whose
\* offset is inside stores the value at that offset, leaves every other
\* element as it was, and raises operation_count and version by exactly 1.
C20_SetElement ==
    [][ (ret'.op = "set_element" /\ ret'.m # NULL) =>
          IF OffsetIn(heap, ret') >= Len(heap[ret'.m].data)
          THEN /\ ret'.rc = -1
               /\ heap' = heap
          ELSE /\ ret'.rc = 0
               /\ heap'[ret'.m].data =
                     [heap[ret'.m].data EXCEPT ![OffsetIn(heap, ret') + 1] = ret'.value]
               /\ heap'[ret'.m].operation_count = heap[ret'.m].operation_count + 1
               /\ heap'[ret'.m].version = heap[ret'.m].version + 1
        ]_vars

\* a set_element wrote the second element of a buffer of two and left the
\* first as it was
C20_WroteSecondElement ==
    /\ ret.op = "set_element"
    /\ ret.rc = 0
    /\ OffsetIn(heap, ret) = 1
    /\ Len(heap[ret.m].data) = 2
    /\ heap[ret.m].data[1] \in RandVals
    /\ heap[ret.m].data[2] = ret.value

----------------------------------------------------------------------------
(* Properties: fill and the version counter *)

\* C21: fill(v) makes every element of the buffer v and raises
\* operation_count and version by exactly 1 each, whatever the length of the
\* buffer; a get_element that follows it at a multi-index inside the buffer
\* returns v.
C21_FillOverwritesAll ==
    [][ /\ (ret'.op = "fill" /\ ret'.m # NULL) =>
              /\ ret'.rc = 0
              /\ Len(heap'[ret'.m].data) = Len(heap[ret'.m].data)
              /\ \A i \in DOMAIN heap'[ret'.m].data :
                    heap'[ret'.m].data[i] = ret'.value
              /\ heap'[ret'.m].operation_count = heap[ret'.m].operation_count + 1
              /\ heap'[ret'.m].version = heap[ret'.m].version + 1
        /\ ( /\ ret.op = "fill"
              /\ ret.rc = 0
              /\ ret'.op = "get_element"
              /\ ret'.m = ret.m
              /\ OffsetIn(heap, ret') < Len(heap[ret.m].data) )
            => ret'.rc = ret.value ]_vars

\* a get_element read the value of a fill back from an element other than the
\* first of a buffer of several elements
C21_ReadBackFilledValue ==
    /\ ret.op = "get_element"
    /\ ret.rc \in InputVals
    /\ OffsetIn(heap, ret) >= 1
    /\ heap[ret.m].operation_count = 1
    /\ \A i \in DOMAIN heap[ret.m].data : heap[ret.m].data[i] = ret.rc

\* the calls that leave the version of their membrane alone, and those that
\* raise it by one
VersionStep ==
    ret'.m # NULL =>
      /\ ( \/ ret'.op = "get_element"
           \/ ret'.op \in {"resize", "set_element"} /\ ret'.rc # 0 )
         => heap'[ret'.m].version = heap[ret'.m].version
      /\ (ret'.op \in {"resize", "set_element", "fill"} /\ ret'.rc = 0)
         => heap'[ret'.m].version = heap[ret'.m].version + 1

\* C22: the version of a membrane never decreases. Each successful reshape,
\* set_element and fill raises it by exactly 1; a failed call (a reshape to
\* an incompatible list, a set_element outside the buffer) and get_element
\* leave it as it is.
C22_VersionCountsMutations ==
    [][ /\ VersionStep
        /\ \A m \in Registered \cap Registered' :
              heap[m].id = heap'[m].id => heap'[m].version >= heap[m].version
      ]_vars

\* the second reshape of a membrane, to a list of 16 factors, was counted
C22_ReshapeToSameListCounted ==
    /\ ret.op = "resize"
    /\ ret.rc = 0
    /\ heap[ret.m].version = 3
    /\ heap[ret.m].operation_count = 0
    /\ Len(heap[ret.m].prime_factors) = MAX_FACTORS

\* C23: each successful add_object that inserts a symbol, remove_object and
\* transfer_object raises the version of every membrane whose object set it
\* changes.
C23_ObjectMutationsBumpVersion ==
    [][ (ret'.op \in {"add_object", "remove_object", "transfer_object"} /\ ret'.rc = 0)
          => \A m \in Registered \cap Registered' :
                heap'[m].objects # heap[m].objects
                  => heap'[m].version > heap[m].version ]_vars

\* C24: in every reachable state the factor list of each live membrane has
\* 1 to 16 entries and every entry is a prime, whatever lists were passed to
\* create, create_child and reshape.
C24_FactorsArePrimes ==
    \A m \in Registered :
        /\ Len(heap[m].prime_factors) \in 1 .. MAX_FACTORS
        /\ \A i \in DOMAIN heap[m].prime_factors : is_prime(heap[m].prime_factors[i])

----------------------------------------------------------------------------
(* Properties: energy *)

\* C25: in every reachable state the energy_level of every live membrane is
\* 100; no call (reshape, get_element, set_element, fill, the object calls,
\* create_child, destroy of another membrane) changes it.
C25_EnergyStaysInitial ==
    /\ [](\A m \in Registered : heap[m].energy_level = INITIAL_ENERGY)
    /\ [][ \A m \in Registered \cap Registered' :
             heap'[m].id = heap[m].id => heap'[m].energy_level = heap[m].energy_level
         ]_vars

\* a membrane that was reshaped or written, holds an object and has a child,
\* after another membrane was destroyed
C25_UsedMembrane ==
    \E m \in Registered :
        /\ heap[m].version > 1
        /\ heap[m].operation_count > 0
        /\ heap[m].access_count > 0
        /\ heap[m].prime_factors = <<6>>
        /\ Len(heap[m].objects) > 0
        /\ Len(heap[m].children) > 0
        /\ Cardinality(issued) > Cardinality(Registered)

----------------------------------------------------------------------------
(* Properties: the prime factorization utilities *)

\* the product of the numbers of occurrences in s of the values in Vs
RECURSIVE MultiplicityProduct(_, _)
MultiplicityProduct(s, Vs) ==
    IF Vs = {} THEN 1
    ELSE LET v == CHOOSE x \in Vs : TRUE
         IN Occurrences(s, v) * MultiplicityProduct(s, Vs \ {v})

\* C26: for every factor list f of 1 to 16 entries, size(f) is the product
\* over the distinct values of f of their numbers of occurrences, and
\* dimensions(f) is the number of distinct values; size(<<2,2,3,3,3>>) is 6
\* and size(<<2,3>>) is 1.
C26_SizeAndDimensions ==
    Len(ret.f1) \in 1 .. MAX_FACTORS =>
      /\ ret.op = "compute_tensor_size" =>
            /\ ret.rc = MultiplicityProduct(ret.f1, Range(ret.f1))
            /\ ret.f1 = <<2, 2, 3, 3, 3>> => ret.rc = 6
            /\ ret.f1 = <<2, 3>> => ret.rc = 1
      /\ ret.op = "compute_tensor_dimensions" =>
            ret.rc = Cardinality(Range(ret.f1))

\* the size of <<2,2,3,3,3>> was computed
C26_SizeOfTwoTwosThreeThrees ==
    /\ ret.op = "compute_tensor_size"
    /\ ret.f1 = <<2, 2, 3, 3, 3>>
    /\ ret.rc = 6

\* p is a prime number
IsPrimeNumber(p) == p >= 2 /\ \A d \in 2 .. (p - 1) : p % d # 0

\* the number of prime factors of n, counted with repetition
RECURSIVE PrimeFactorCount(_)
PrimeFactorCount(n) ==
    IF n < 2 THEN 0
    ELSE LET d == CHOOSE x \in 2 .. n : n % x = 0 /\ \A e \in 2 .. (x - 1) : n % e # 0
         IN 1 + PrimeFactorCount(n \div d)

\* s is a non-decreasing list of at most 16 primes
SortedPrimes(s) ==
    /\ Len(s) <= MAX_FACTORS
    /\ \A i \in DOMAIN s : IsPrimeNumber(s[i])
    /\ \A i \in 1 .. (Len(s) - 1) : s[i] <= s[i + 1]

\* C27 as stated: factorize(n) returns for every n >= 2 a non-decreasing list
\* of at most 16 primes whose product is n (12 gives <<2,2,3>>), for n = 1 the
\* empty list, and for no input more than 16 entries.
C27_FactorizeAsStated ==
    (ret.op = "prime_factors" /\ ~ret.oom) =>
      /\ Len(ret.rc) <= MAX_FACTORS
      /\ ret.n >= 2 => SortedPrimes(ret.rc) /\ SeqProduct(ret.rc, 1) = ret.n
      /\ ret.n = 12 => ret.rc = <<2, 2, 3>>
      /\ ret.n = 1 => ret.rc = <<>>

\* C27, amended: factorize(n) returns NULL when its allocation fails.
\* Otherwise it returns at most 16 entries for every input; for n >= 2 a
\* non-decreasing list of primes, whose product is n when n has at most 16
\* prime factors counted with repetition and a proper divisor of n, of 16
\* entries, when n has more; for n = 1 the empty list.
C27_FactorizeUpToSixteen ==
    ret.op = "prime_factors" =>
      IF ret.oom THEN ret.rc = NULL
      ELSE /\ Len(ret.rc) <= MAX_FACTORS
           /\ ret.n >= 2 =>
                 /\ SortedPrimes(ret.rc)
                 /\ IF PrimeFactorCount(ret.n) <= MAX_FACTORS
                    THEN SeqProduct(ret.rc, 1) = ret.n
                    ELSE /\ Len(ret.rc) = MAX_FACTORS
                         /\ ret.n % SeqProduct(ret.rc, 1) = 0
                         /\ SeqProduct(ret.rc, 1) < ret.n
           /\ ret.n = 12 => ret.rc = <<2, 2, 3>>
           /\ ret.n = 1 => ret.rc = <<>>

\* a number with 17 prime factors was factorized into its 16 smallest
C27_FactorizedSeventeenFactors ==
    /\ ret.op = "prime_factors"
    /\ ~ret.oom
    /\ ret.n = 196608
    /\ ret.rc = Sixteen

\* Natural numbers of any size, as their base-256 digits from the lowest up,
\* without leading zeros (zero is the empty list): digits * k + carry
RECURSIVE TimesPlus(_, _, _)
TimesPlus(digits, k, carry) ==
    IF Len(digits) = 0
    THEN IF carry = 0 THEN <<>>
         ELSE <<carry % Byte>> \o TimesPlus(<<>>, k, carry \div Byte)
    ELSE LET t == digits[1] * k + carry
             rest == TimesPlus(Tail(digits), k, t \div Byte)
         IN IF t % Byte = 0 /\ rest = <<>> THEN <<>> ELSE <<t % Byte>> \o rest

\* the product of the entries of s from entry i on, without wrapping
RECURSIVE ExactProduct(_, _)
ExactProduct(s, i) ==
    IF i > Len(s) THEN <<1>> ELSE TimesPlus(ExactProduct(s, i + 1), s[i], 0)

\* the value of the uint32_t <<high, low>>
ExactU32(x) == TimesPlus(TimesPlus(<<>>, 0, x[1]), Half, x[2])

\* C28: prime_product(factors) is the mathematical product of the entries (1
\* for the empty list) for every list of up to 16 entries, and
\* compatible(f1, f2) is true exactly when the two products are equal.
C28_ProductIsExact ==
    /\ ret.op = "prime_product" => ExactU32(ret.rc) = ExactProduct(ret.f1, 1)
    /\ ret.op = "factors_compatible" =>
          (ret.rc <=> ExactProduct(ret.f1, 1) = ExactProduct(ret.f2, 1))

----------------------------------------------------------------------------
(* Properties: reshape there and back *)

\* a and b hold the same values the same number of times
IsPermutation(a, b) ==
    /\ Len(a) = Len(b)
    /\ \A v \in Range(a) \cup Range(b) : Occurrences(a, v) = Occurrences(b, v)

\* the state a call ended in, as the next call finds it
StateAfter ==
    [heap |-> heap', live |-> live', reg |-> membrane_registry',
     cnt |-> membrane_count', next |-> next_membrane_id',
     log |-> <<>>, uaf |-> FALSE, oom |-> FALSE, rv |-> 0]

\* a reshape to a permutation of the current list succeeds, takes the list and
\* keeps the length of the buffer
PermutationStep ==
    (ret'.op = "resize" /\ ret'.m # NULL
       /\ IsPermutation(ret'.factors, heap[ret'.m].prime_factors))
    => /\ ret'.rc = 0
       /\ heap'[ret'.m].prime_factors = ret'.factors
       /\ Len(heap'[ret'.m].data) = Len(heap[ret'.m].data)

\* the reshape back to the list f1 that a membrane m had before the successful
\* reshape of this step, for each outcome of its realloc: it succeeds and
\* restores f1 and the length of the buffer, or (with may_fail) it finds no
\* memory for a buffer of another length and changes nothing
ReshapeBack(may_fail) ==
    (ret'.op = "resize" /\ ret'.rc = 0) =>
      LET m == ret'.m
          f1 == ret'.old
      IN \A realloc_ok \in BOOLEAN, junk \in Fillings(f1, RandVals) :
           LET B == membrane_resize(StateAfter, m, f1, realloc_ok, junk)
           IN \/ /\ B.rv = 0
                 /\ B.heap[m].prime_factors = f1
                 /\ Len(B.heap[m].data) = Len(heap[m].data)
              \/ /\ may_fail
                 /\ ~realloc_ok
                 /\ Len(heap'[m].data) # Len(heap[m].data)
                 /\ B.rv = -1
                 /\ B.heap = heap'

\* the next call is the reshape back to the list before the last reshape
BackCall ==
    /\ ret.op = "resize"
    /\ ret.rc = 0
    /\ ret'.op = "resize"
    /\ ret'.m = ret.m
    /\ ret'.factors = ret.old

\* C29 as stated: a reshape to any permutation of the current list succeeds
\* and keeps the length of the buffer; whenever a reshape from f1 to f2
\* succeeds, a following reshape back to f1 succeeds and restores the factor
\* list and the length of the buffer.
C29_ReshapeBackAsStated ==
    [][ /\ PermutationStep
        /\ ReshapeBack(FALSE)
        /\ BackCall => ret'.rc = 0 ]_vars

\* C29, amended: a reshape to any permutation of the current list succeeds
\* and keeps the length of the buffer; whenever a reshape from f1 to f2
\* succeeds, a following reshape back to f1 restores the factor list and the
\* length of the buffer, unless the two lists have different element counts
\* and the reallocation fails: then it fails and changes nothing.
C29_ReshapeBackUnlessOutOfMemory ==
    [][ /\ PermutationStep
        /\ ReshapeBack(TRUE)
        /\ BackCall =>
              \/ /\ ret'.rc = 0
                 /\ heap'[ret'.m].prime_factors = ret.old
                 /\ Len(heap'[ret'.m].data) = compute_tensor_size(ret.old)
              \/ /\ ret'.oom
                 /\ compute_tensor_size(ret.old) # compute_tensor_size(ret.factors)
                 /\ ret'.rc = -1
                 /\ heap' = heap ]_vars

\* the second reshape of a membrane, from <<2,2>> to <<4>>, succeeded and
\* shrank the buffer
C29_ReshapedBack ==
    /\ ret.op = "resize"
    /\ ret.rc = 0
    /\ ret.old = <<2, 2>>
    /\ ret.factors = <<4>>
    /\ heap[ret.m].version = 3
    /\ Len(heap[ret.m].data) = 1

----------------------------------------------------------------------------
(* Properties: index mapping *)

\* the product of the entries j of F with lo <= j <= hi
RECURSIVE EntryProduct(_, _, _)
EntryProduct(F, lo, hi) == IF lo > hi THEN 1 ELSE F[lo] * EntryProduct(F, lo + 1, hi)

\* the sum over the axes k from k on of index[k] times the product of the
\* entries of F after position k up to position d (positions counted from 1)
RECURSIVE OffsetSum(_, _, _, _)
OffsetSum(F, index, k, d) ==
    IF k > d THEN 0
    ELSE index[k] * EntryProduct(F, k + 1, d) + OffsetSum(F, index, k + 1, d)

\* C30: with d the number of distinct values of the factor list F,
\* get_element and set_element both take the element at the offset that is
\* the sum over the axes k of index[k] times the product of the raw entries of
\* F at the positions after k and up to d: set_element writes there and
\* get_element reads there when the offset is inside the buffer, and they
\* refuse (set_element with -1, get_element with 0) when it is not.
C30_IndexMapping ==
    [][ (ret'.op \in {"get_element", "set_element"} /\ ret'.m # NULL) =>
          LET m == ret'.m
              F == heap[m].prime_factors
              d == Cardinality(Range(F))
              offset == OffsetSum(F, ret'.indices, 1, d)
              inside == offset < Len(heap[m].data)
          IN /\ ret'.op = "get_element" =>
                   /\ ret'.rc = IF inside THEN heap[m].data[offset + 1] ELSE 0
                   /\ heap'[m].data = heap[m].data
             /\ ret'.op = "set_element" =>
                   /\ ret'.rc = IF inside THEN 0 ELSE -1
                   /\ heap'[m].data =
                        IF inside THEN [heap[m].data EXCEPT ![offset + 1] = ret'.value]
                        ELSE heap[m].data ]_vars

\* in a list of three dimensions the element at <<1, 0, 1>> was read: offset
\* 1 * (2 * 3) + 0 * 3 + 1 = 7 with the raw entries 2, 2, 3 of <<2,2,3,3,5,5>>
C30_ReadEighthElement ==
    /\ ret.op = "get_element"
    /\ heap[ret.m].prime_factors = <<2, 2, 3, 3, 5, 5>>
    /\ ret.indices = <<1, 0, 1>>
    /\ ret.rc = 18
    /\ heap[ret.m].operation_count = 0

----------------------------------------------------------------------------
(* Properties: remove_object *)

\* the symbols a call may name or a set may hold
AllSymbols == Range(FullObjects) \cup SymbolArgs

\* C33: remove_object(s) on a membrane that does not hold s fails and leaves
\* the object set as it is; on a membrane that holds s it removes exactly s:
\* object_count goes down by 1, every other symbol stays, find_object(s) is
\* false afterwards and find_object of every other symbol is as before.
C33_RemoveObject ==
    [][ (ret'.op = "remove_object" /\ ret'.m # NULL) =>
          LET m == ret'.m
              s == ret'.sym
          IN IF ~membrane_find_object(State, m, s)
             THEN /\ ret'.rc = -1
                  /\ heap' = heap
             ELSE /\ ret'.rc = 0
                  /\ Len(heap'[m].objects) = Len(heap[m].objects) - 1
                  /\ Range(heap'[m].objects) = Range(heap[m].objects) \ {s}
                  /\ ~membrane_find_object(StateAfter, m, s)
                  /\ \A t \in AllSymbols \ {s} :
                        membrane_find_object(StateAfter, m, t)
                          <=> membrane_find_object(State, m, t)
                  /\ \A n \in Registered \ {m} : heap'[n] = heap[n] ]_vars

\* the last symbol of a set of 16 was removed
C33_RemovedLastOfSixteen ==
    /\ ret.op = "remove_object"
    /\ ret.rc = 0
    /\ ret.sym = "x"
    /\ Len(heap[ret.m].objects) = MAX_OBJECTS - 1

----------------------------------------------------------------------------
(* Properties: what destroy leaves alone *)

\* the membrane n as a destroy of m that ran to its end must leave it: as it
\* was, without m in its child list
WithoutChild(n, m) ==
    LET i == FirstIndex(heap[n].children, m)
    IN IF i = 0 THEN heap[n] ELSE [heap[n] EXCEPT !.children = RemoveAt(@, i)]

----------------------------------------------------------------------------
(* Properties: sizing against indexing *)

\* the multi-indices of F whose component on each axis is below the
\* multiplicity of that axis
LogicalIndices(F) ==
    { index \in [1 .. Len(PrimePowers(F)) -> 0 .. MaxIndex] :
        \A k \in DOMAIN index : index[k] < PrimePowers(F)[k] }

\* C35: every multi-index whose component on each axis is below the
\* multiplicity of the axis maps to an offset inside the buffer, and two
\* different ones map to different offsets: a set_element at one of them
\* succeeds and does not change what get_element reads at another.
C35_SizingAgreesWithIndexing ==
    [][ ( /\ ret'.op = "set_element"
          /\ ret'.m # NULL
          /\ ret'.indices \in LogicalIndices(heap[ret'.m].prime_factors) )
        => /\ ret'.rc = 0
           /\ OffsetIn(heap, ret') < Len(heap[ret'.m].data)
           /\ \A other \in LogicalIndices(heap[ret'.m].prime_factors) \ {ret'.indices} :
                 /\ FlatIndex(heap[ret'.m].prime_factors, other) # OffsetIn(heap, ret')
                 /\ membrane_get_element(StateAfter, ret'.m, other).rv
                      = membrane_get_element(State, ret'.m, other).rv ]_vars

----------------------------------------------------------------------------
(* Properties: element accesses stay inside the buffer *)

\* C36: after any sequence of create, reshape (shrinking or growing the
\* buffer), fill, set_element and get_element with any indices, no element
\* access reads or writes at or beyond the current length of the buffer: a
\* get_element or set_element whose offset is not below the length has no
\* effect and returns 0 or -1, one that has an effect has its offset below
\* the length, fill writes the elements of the buffer and no more, and the
\* length of the buffer is the size of the current factor list.
C36_AccessInsideBuffer ==
    /\ [](\A m \in Registered : Len(heap[m].data) = compute_tensor_size(heap[m].prime_factors))
    /\ [][ (ret'.op \in {"get_element", "set_element", "fill"} /\ ret'.m # NULL) =>
             LET m == ret'.m
                 inside == OffsetIn(heap, ret') < Len(heap[m].data)
             IN /\ DOMAIN heap'[m].data = DOMAIN heap[m].data
                /\ ret'.op = "get_element" =>
                      IF inside THEN ret'.rc = heap[m].data[OffsetIn(heap, ret') + 1]
                      ELSE ret'.rc = 0 /\ heap' = heap
                /\ ret'.op = "set_element" =>
                      IF inside THEN ret'.rc = 0
                      ELSE ret'.rc = -1 /\ heap' = heap ]_vars

\* after a reshape, a set_element at an offset beyond the buffer was refused
C36_RefusedAfterReshape ==
    /\ ret.op = "set_element"
    /\ ret.rc = -1
    /\ heap[ret.m].version = 2
    /\ heap[ret.m].operation_count = 0
    /\ heap[ret.m].prime_factors = <<4>>
    /\ OffsetIn(heap, ret) >= Len(heap[ret.m].data)

----------------------------------------------------------------------------
(* Properties: consecutive ids *)

\* C37: ids are consecutive from 1 when no allocation fails.  A create or
\* create_child in which no allocation fails either succeeds with the id
\* next_membrane_id, which then goes up by 1, or is rejected (factor list,
\* full registry, full or unknown parent) and leaves next_membrane_id alone;
\* so as long as the ids issued are 1 .. n, the next membrane created gets
\* n + 1.  Id 0 is never issued and a lookup of 0 finds no membrane.
C37_ConsecutiveIds ==
    /\ [](/\ 0 \notin issued
          /\ \A m \in Registered : heap[m].id # 0
          /\ find_membrane_by_id(0) = NULL
          /\ issued \subseteq 1 .. (next_membrane_id - 1))
    /\ [][ (ret'.op \in {"create", "create_child"} /\ ~ret'.oom) =>
             IF ret'.rc # NULL
             THEN /\ heap'[ret'.rc].id = next_membrane_id
                  /\ next_membrane_id' = next_membrane_id + 1
                  /\ issued = 1 .. (next_membrane_id - 1)
                       => issued' = 1 .. (next_membrane_id' - 1)
             ELSE /\ next_membrane_id' = next_membrane_id
                  /\ issued' = issued ]_vars

\* the 65th membrane of a run without a lost id was created with id 65, as
\* a child
C37_SixtyFifthCreated ==
    /\ ret.op = "create_child"
    /\ ret.rc # NULL
    /\ heap[ret.rc].id = MAX_MEMBRANES + 1
    /\ issued = 1 .. (MAX_MEMBRANES + 1)

----------------------------------------------------------------------------
(* Properties: destroy of one child *)

\* C38: the destroy of a child c of a parent p takes exactly c out of the
\* child list of p: the other children keep their order and the count goes
\* down by 1.  A parent with fewer than 8 children then accepts a
\* create_child: with a valid factor list and a registry that is not full the
\* call returns a child, appended to the list, unless an allocation fails.
C38_DestroyOneChild ==
    [][ /\ ( /\ ret'.op = "destroy"
              /\ ret'.m # NULL
              /\ ret'.rc = 0
              /\ ~crashed'
              /\ heap[ret'.m].parent \in Registered
              /\ FirstIndex(heap[heap[ret'.m].parent].children, ret'.m) # 0 )
            => LET p == heap[ret'.m].parent
                   i == FirstIndex(heap[p].children, ret'.m)
               IN /\ p \in Registered'
                  /\ heap'[p].children = RemoveAt(heap[p].children, i)
                  /\ Len(heap'[p].children) = Len(heap[p].children) - 1
        /\ ( /\ ret'.op = "create_child"
              /\ ret'.m # NULL
              /\ Len(heap[ret'.m].children) < MAX_CHILDREN
              /\ Len(ret'.factors) \in 1 .. MAX_FACTORS
              /\ membrane_count < MAX_MEMBRANES )
            => \/ ret'.rc = NULL /\ ret'.oom
               \/ /\ ret'.rc # NULL
                  /\ heap'[ret'.m].children = Append(heap[ret'.m].children, ret'.rc) ]_vars

\* the parent that had 8 children has 8 again: a child was destroyed and
\* create_child gave it a new last child
C38_EighthChildReplaced ==
    /\ ret.op = "create_child"
    /\ ret.rc # NULL
    /\ heap[ret.m].id = 1
    /\ Len(heap[ret.m].children) = MAX_CHILDREN
    /\ heap[ret.m].children[MAX_CHILDREN] = ret.rc
    /\ heap[ret.rc].id = MAX_CHILDREN + 2

----------------------------------------------------------------------------
(* Properties: the shell builtins *)

\* C39: the shell builtins membrane-set, membrane-fill,
\* membrane-remove-object, membrane-transfer and membrane-reshape never change
\* the membrane store: after any of them every membrane and the registry are
\* as before, although the command reports the operation as done whenever
\* its membranes exist (and, for membrane-reshape, the factor argument holds
\* a positive number).
C39_BuiltinsChangeNothing ==
    [][ ret'.op \in {"membrane-set", "membrane-fill", "membrane-remove-object",
                     "membrane-transfer", "membrane-reshape"}
        => /\ heap' = heap
           /\ live' = live
           /\ membrane_registry' = membrane_registry
           /\ membrane_count' = membrane_count
           /\ next_membrane_id' = next_membrane_id
           /\ ret'.rc = "done"
                <=> /\ ret'.m # NULL
                    /\ ret'.op = "membrane-transfer" => ret'.m2 # NULL
                    /\ ret'.op = "membrane-reshape"
                         => \E i \in DOMAIN ret'.factors : ret'.factors[i] > 0 ]_vars

\* membrane-transfer reported the transfer of a symbol that the source
\* holds and the destination does not hold, and both are as before
C39_TransferReportedNotDone ==
    /\ ret.op = "membrane-transfer"
    /\ ret.rc = "done"
    /\ ret.m # ret.m2
    /\ ret.sym \in Range(heap[ret.m].objects)
    /\ ret.sym \notin Range(heap[ret.m2].objects)

----------------------------------------------------------------------------
(* Concurrent creation: C31, C32 *)

\* the membranes that the threads' calls of create and create_child returned
Made == UNION { threads[t].made : t \in Thread }

\* no thread is inside a call
Quiet == \A t \in Thread : threads[t].pc = "idle"

DistinctIdsMade == \A a, b \in Made : a # b => heap[a].id # heap[b].id

AllMadeRegistered ==
    Quiet => \A a \in Made :
                 \E i \in 0 .. (membrane_count - 1) : membrane_registry[i] = a

\* C31: when threads run create and create_child concurrently, the membranes
\* their calls return have pairwise distinct ids, and once the calls have
\* returned each of these membranes is in a registry slot of its own below
\* membrane_count (no registration is lost).
C31_ConcurrentCreateKeepsIdsAndSlots == DistinctIdsMade /\ AllMadeRegistered

\* C32: when threads call create concurrently on a registry that is nearly
\* full, membrane_count never exceeds 64 and nothing is stored behind the
\* 64 slots of the registry array.
C32_ConcurrentCreateKeepsBound ==
    /\ membrane_count <= MAX_MEMBRANES
    /\ \A i \in DOMAIN membrane_registry \ RegIdx : membrane_registry[i] = NULL

============================================================================
